---- MODULE Spec2Model ----
(***************************************************************************)
(* Model of the cognitive-modules resolver and validated execution         *)
(* pipeline (src/src/cognitive/registry.py, src/src/cognitive/runner.py,   *)
(* src/runtime/run_module.py, src/runtime/llm_stub.py) and of the module   *)
(* installer (registry.py, src/src/cognitive/cli.py), the registry client  *)
(* (registry.py fetch_registry / search_registry) and the module validator *)
(* (src/runtime/validate_module.py).                                       *)
(*                                                                         *)
(* Seven specifications share the variables:                               *)
(*   SpecResolver  get_search_paths / find_module / list_modules /         *)
(*                 uninstall_module over a changing module store           *)
(*   SpecParse     the two response parsers applied to bounded texts       *)
(*   Spec          one run of run_module, in either implementation         *)
(*   SpecInstall   one install command (cli.py install_cmd over            *)
(*                 registry.py install_module) or one call of              *)
(*                 install_from_github_url                                 *)
(*   SpecRegistry  fetch_registry and search_registry calls of one or two  *)
(*                 processes over the cache file                           *)
(*   SpecValidator validate_module of validate_module.py applied to        *)
(*                 bounded module directories                              *)
(*   SpecRace      two install_from_local calls at the same time, for the  *)
(*                 same target name or for two names                       *)
(***************************************************************************)
EXTENDS Integers, Sequences, FiniteSets, TLC

VARIABLES
  \* ---- resolver (registry.py)
  custom,     \* COGNITIVE_MODULES_PATH split on ":" (<<>> when unset or empty)
  fs,         \* the module stores: base -> module name -> directory entry
  rop,        \* the last resolver operation and its argument (and, for an
              \* uninstall, how the call ended)
  rpaths,     \* what get_search_paths returned
  rfound,     \* what find_module returned
  rlist,      \* what list_modules returned
  \* ---- response parsing (runner.py parse_llm_response, run_module.py 143-156)
  ptext,      \* the text T under test, as its lines
  ppc,        \* "idle" | "parsed"
  pplain,     \* both parsers applied to T
  pwrapped,   \* both parsers applied to T wrapped in a fenced block
  \* ---- pipeline (run_module)
  impl,       \* "runner" (src/cognitive/runner.py) | "runtime" (runtime/run_module.py)
  args,       \* the arguments of the call
  moddir,     \* content of the module directory the call resolves to
  pc,         \* the stage about to run, or "Done" / "Failed"
  trace,      \* the stages that have run, in order
  module,     \* the loaded descriptor
  prompt,     \* the assembled prompt
  invokes,    \* number of calls made to the text-generation provider
  response,   \* the raw response text, as its lines
  output,     \* the parsed output document
  result,     \* what run_module returned
  err,        \* the exception that ended the run
  diag,       \* diagnostics printed by the run (preview, confidence line)
  \* ---- installer (registry.py install_*, cli.py install_cmd)
  ientry,     \* "install_cmd" | "install_from_github_url"
  iorig,      \* the arguments the entry point was called with
  isource,    \* source argument of the running install_module call
  iname,      \* name argument of the running call (None when not given)
  ipc,        \* the step about to run, or "Done"
  icalls,     \* the acquisition methods entered, in order
  ifallbacks, \* the pending try-blocks of install_module's last branch
  idepth,     \* nesting depth of install_module calls
  itmp,       \* the temporary directory the running installer holds
  temps,      \* the temporary directories that exist on disk
  ipath,      \* the resolved source path handed to install_from_local
  isrcdir,    \* what sits at that path
  itarget,    \* the path install_module returned
  ustore,     \* the user-global store: name -> directory entry
  manifest,   \* installed.json: name -> entry
  iraise,     \* the exception that is propagating or ended the call ("none" if none)
  iexit,      \* how the entry point ended ("none" while it runs)
  iout,       \* what the command printed
  istart,     \* store and manifest when the entry point was called
  izip,       \* the archive URL install_from_github_url built (None before)
  \* ---- registry client (registry.py fetch_registry, search_registry)
  nprocs,     \* number of processes that call the registry client
  cache,      \* the file at REGISTRY_CACHE: whether it exists, and its text
  procs,      \* process -> the call it is in: arguments, step, locals, result
  \* ---- validator (runtime/validate_module.py)
  vmod,       \* the module directory under validation
  vout,       \* what validate_module returned or raised
  \* ---- two racing installs (registry.py install_from_local)
  rstore,     \* the user-global store: name -> directory; a file in it is
              \* <<file name, the process that wrote it>> (0: installed before)
  rmanifest,  \* installed.json: whether it exists and decodes, and its entries
  racers      \* process -> its install_from_local call: step, locals, result

resolverVars == <<custom, fs, rop, rpaths, rfound, rlist>>
parseVars    == <<ptext, ppc, pplain, pwrapped>>
pipeVars     == <<impl, args, moddir, pc, trace, module, prompt, invokes,
                  response, output, result, err, diag>>
installVars  == <<ientry, iorig, isource, iname, ipc, icalls, ifallbacks, idepth,
                  itmp, temps, ipath, isrcdir, itarget, ustore, manifest,
                  iraise, iexit, iout, istart, izip>>
registryVars  == <<nprocs, cache, procs>>
validatorVars == <<vmod, vout>>
raceVars      == <<rstore, rmanifest, racers>>
restVars      == <<registryVars, validatorVars, raceVars>>
vars         == <<resolverVars, parseVars, pipeVars, installVars, restVars>>

None == <<>>

Min(a, b) == IF a < b THEN a ELSE b

(***************************************************************************)
(* The module store.  A path is <<base, name>>; an entry is absent, a      *)
(* plain file, or a directory holding a set of file names.                 *)
(***************************************************************************)
CustomDirs  == {"a", "b"}
FixedDirs   == {"local", "user", "system"}
Bases       == CustomDirs \cup FixedDirs
ModuleNames == {"m", "y"}

DescriptorFiles == {"module.yaml", "MODULE.md", "module.md"}

Absent     == [kind |-> "absent", files |-> {}]
PlainFile  == [kind |-> "file",   files |-> {}]
Dir(files) == [kind |-> "dir",    files |-> files]

\* Bound: how many entries the environment places in the stores.
MaxEntries == 2

\* What the environment may place under a store.
PlacedEntries ==
  { PlainFile, Dir({}), Dir({"module.md"}), Dir({"module.yaml", "MODULE.md"}) }

\* The values of COGNITIVE_MODULES_PATH the model runs with, already split.
CustomSettings ==
  { <<>>, <<"a">>, <<"a", "b">>, <<"b", "a">>, <<"user", "b">> }

EmptyStore == [b \in Bases |-> [n \in ModuleNames |-> Absent]]

EntryAt(store, path) ==
  IF path[1] \in DOMAIN store /\ path[2] \in DOMAIN store[path[1]]
    THEN store[path[1]][path[2]]
    ELSE Absent

Exists(store, path) == EntryAt(store, path).kind # "absent"
IsDir(store, path)  == EntryAt(store, path).kind = "dir"
HasFile(store, path, f) == IsDir(store, path) /\ f \in EntryAt(store, path).files

NumEntries(store) ==
  Cardinality({ p \in Bases \X ModuleNames : Exists(store, p) })

(***************************************************************************)
(* registry.py: search paths                                               *)
(***************************************************************************)
SEARCH_PATHS == <<"local", "user", "system">>

\* for p in custom.split(":"): paths.insert(0, Path(p))
RECURSIVE InsertEach(_, _)
InsertEach(paths, segs) ==
  IF segs = <<>> THEN paths
  ELSE InsertEach(<<Head(segs)>> \o paths, Tail(segs))

get_search_paths(env) ==
  IF env # <<>> THEN InsertEach(SEARCH_PATHS, env) ELSE SEARCH_PATHS

\* _is_valid_module (lines 250-256); find_module repeats the same three probes
\* inline (lines 62-64).
OnlyModuleMd(store, path) == HasFile(store, path, "module.md")
_is_valid_module(store, path) ==
  \/ HasFile(store, path, "module.yaml")
  \/ HasFile(store, path, "MODULE.md")
  \/ HasFile(store, path, "module.md")

RECURSIVE FindIn(_, _, _)
FindIn(store, paths, name) ==
  IF paths = <<>> THEN None
  ELSE LET module_path == <<Head(paths), name>> IN
       IF Exists(store, module_path) /\ _is_valid_module(store, module_path)
         THEN module_path
         ELSE FindIn(store, Tail(paths), name)

FindInFixedPaths(store, env, name) == FindIn(store, SEARCH_PATHS, name)
find_module(store, env, name) == FindIn(store, get_search_paths(env), name)

\* Format detection of list_modules (lines 84-92).
DetectUpperCaseOnly(store, path) ==
  IF HasFile(store, path, "module.yaml") THEN "v2"
  ELSE IF HasFile(store, path, "MODULE.md") THEN "v1"
  ELSE "none"
DetectFormat(store, path) ==
  IF HasFile(store, path, "module.yaml") THEN "v2"
  ELSE IF HasFile(store, path, "MODULE.md") THEN "v1"
  ELSE IF HasFile(store, path, "module.md") THEN "v0"
  ELSE "none"

\* if module_dir.name in seen: continue    (seen holds the names appended so far)
NeverSeen(modules, name) == FALSE
Seen(modules, name) == name \in { modules[i].name : i \in 1..Len(modules) }

\* The inner loop over base_path.iterdir(), in the order the directory yields.
RECURSIVE ScanDir(_, _, _, _)
ScanDir(store, base, order, modules) ==
  IF order = <<>> THEN modules
  ELSE LET module_dir == <<base, Head(order)>>
           fmt == DetectFormat(store, module_dir)
       IN IF ~IsDir(store, module_dir) \/ Seen(modules, Head(order)) \/ fmt = "none"
            THEN ScanDir(store, base, Tail(order), modules)
            ELSE ScanDir(store, base, Tail(order),
                   Append(modules,
                     [name |-> Head(order), path |-> module_dir,
                      location |-> IF base = SEARCH_PATHS[1] THEN "local" ELSE "global",
                      format |-> fmt]))

\* The outer loop over get_search_paths().
RECURSIVE ScanPaths(_, _, _, _)
ScanPaths(store, paths, order, modules) ==
  IF paths = <<>> THEN modules
  ELSE ScanPaths(store, Tail(paths), order, ScanDir(store, Head(paths), order, modules))

list_modules(store, env, order) == ScanPaths(store, get_search_paths(env), order, <<>>)

\* The orders in which iterdir() may yield the names of one directory.
DirOrders == { <<"m", "y">>, <<"y", "m">> }

(***************************************************************************)
(* Text.  A text is the non-empty sequence of its lines, so that            *)
(* split("\n") and "\n".join are the change of view between the two; the    *)
(* empty string is the single empty line.                                   *)
(***************************************************************************)
\* The fence is three backquotes; a TLA+ string cannot hold that character, so
\* each is written as an apostrophe (the lengths are kept).
FENCE          == "'''"
FENCE_JSON     == "'''json"
FENCE_INDENTED == "  '''"
BLANK          == ""
PROSE          == "Here is the JSON you asked for, as a single object without any commentary:"

\* Lines that are one member of a JSON object, with the key and value they hold
\* (numbers in hundredths).
Number(n) == [t |-> "number", n |-> n]
String    == [t |-> "string", n |-> 0]
Object    == [t |-> "object", n |-> 0]

MemberLines ==
  { "\"confidence\": 0.5", "\"confidence\": 0.65", "\"confidence\": 0.9",
    "\"confidence\": 0.0", "\"confidence\": \"high\"", "\"rationale\": {}" }

MemberKey(l) == IF l = "\"rationale\": {}" THEN "rationale" ELSE "confidence"

MemberValue(l) ==
  CASE l = "\"confidence\": 0.5"      -> Number(50)
    [] l = "\"confidence\": 0.65"     -> Number(65)
    [] l = "\"confidence\": 0.9"      -> Number(90)
    [] l = "\"confidence\": 0.0"      -> Number(0)
    [] l = "\"confidence\": \"high\"" -> String
    [] OTHER                          -> Object

\* "\n".join(lines)
Join(lines) == IF lines = <<>> THEN <<BLANK>> ELSE lines

\* Number of characters of a text: its lines and the newlines between them.
RECURSIVE CharLen(_)
CharLen(text) ==
  IF Len(text) = 1 THEN Len(text[1])
  ELSE Len(Head(text)) + 1 + CharLen(Tail(text))

\* line.strip() / str.lstrip() on one line: the only leading whitespace among
\* the lines of the model is that of the indented fence.
StripLine(l) == IF l = FENCE_INDENTED THEN FENCE ELSE l

RECURSIVE DropLeadingBlank(_)
DropLeadingBlank(lines) ==
  IF lines = <<>> THEN <<>>
  ELSE IF Head(lines) = BLANK THEN DropLeadingBlank(Tail(lines))
  ELSE lines

RECURSIVE DropTrailingBlank(_)
DropTrailingBlank(lines) ==
  IF lines = <<>> THEN <<>>
  ELSE IF lines[Len(lines)] = BLANK THEN DropTrailingBlank(SubSeq(lines, 1, Len(lines) - 1))
  ELSE lines

\* str.strip(): leading and trailing whitespace, blank lines included.
Strip(text) ==
  LET kept == DropTrailingBlank(DropLeadingBlank(text))
  IN IF kept = <<>> THEN <<BLANK>>
     ELSE <<StripLine(Head(kept))>> \o Tail(kept)

\* text.startswith(FENCE)
StartsWithFence(text) == text[1] \in {FENCE, FENCE_JSON}

(***************************************************************************)
(* json.loads on a text: whitespace (blank lines, indentation) is skipped;  *)
(* the document is one object, "{", member lines, "}".  A later member with *)
(* the same key replaces the earlier one, as in a Python dict.              *)
(***************************************************************************)
EmptyDoc == [k \in {} |-> Object]

RECURSIVE NonBlank(_)
NonBlank(lines) ==
  IF lines = <<>> THEN <<>>
  ELSE IF Head(lines) = BLANK THEN NonBlank(Tail(lines))
  ELSE <<Head(lines)>> \o NonBlank(Tail(lines))

RECURSIVE DocOf(_, _)
DocOf(members, doc) ==
  IF members = <<>> THEN doc
  ELSE LET k == MemberKey(Head(members))
           v == MemberValue(Head(members))
       IN DocOf(Tail(members),
                [x \in DOMAIN doc \cup {k} |-> IF x = k THEN v ELSE doc[x]])

JSONDecodeError == [ok |-> FALSE, doc |-> EmptyDoc]

JsonLoads(text) ==
  LET toks == NonBlank(text)
      n == Len(toks)
  IN IF /\ n >= 2
        /\ toks[1] = "{"
        /\ toks[n] = "}"
        /\ \A i \in 2..(n - 1) : toks[i] \in MemberLines
       THEN [ok |-> TRUE, doc |-> DocOf(SubSeq(toks, 2, n - 1), EmptyDoc)]
       ELSE JSONDecodeError

(***************************************************************************)
(* runner.py parse_llm_response (lines 94-110)                              *)
(***************************************************************************)
\* The for loop of lines 104-107: the 0-based index of the first line after the
\* opening one whose strip() is the bare fence, else len(lines) - 1.
RECURSIVE ClosingFrom(_, _)
ClosingFrom(lines, i) ==
  IF i > Len(lines) - 1 THEN Len(lines) - 1
  ELSE IF StripLine(lines[i + 1]) = FENCE THEN i
  ELSE ClosingFrom(lines, i + 1)

\* lines[start:end] with start = 1
KeepClosingFence(lines) == Join(SubSeq(lines, 2, Len(lines)))
StripFence(lines) == Join(SubSeq(lines, 2, ClosingFrom(lines, 1)))

parse_llm_response(resp) ==
  LET text == Strip(resp)
  IN JsonLoads(IF StartsWithFence(text) THEN StripFence(text) ELSE text)

(***************************************************************************)
(* run_module.py lines 143-151: "\n".join(lines[1:-1])                      *)
(***************************************************************************)
StripFirstAndLast(lines) == Join(SubSeq(lines, 2, Len(lines) - 1))

parse_runtime(resp) ==
  LET response_text == Strip(resp)
  IN JsonLoads(IF StartsWithFence(response_text)
                 THEN StripFirstAndLast(response_text)
                 ELSE response_text)

\* T wrapped in a fenced code block: opening fence line, T, closing fence line.
Wrap(text, opening) == <<opening>> \o text \o <<FENCE>>

\* Bound: the number of lines of a text under test.
MaxLines == 4

ParseAlphabet ==
  { FENCE, FENCE_JSON, FENCE_INDENTED, BLANK, PROSE, "{", "}", "\"confidence\": 0.5" }

Texts == UNION { [1..n -> ParseAlphabet] : n \in 1..MaxLines }

(***************************************************************************)
(* Documents, schemas and the validation wrapper                            *)
(* (runner.py validate_data, run_module.py validate_input/validate_output). *)
(* A schema lists the required properties and those that must be numbers;   *)
(* a schema may itself be malformed (jsonschema.SchemaError).               *)
(***************************************************************************)
Schema(wf, req, num) == [wellFormed |-> wf, required |-> req, numeric |-> num]

InputSchemas ==
  { Schema(TRUE, {"task"}, {}), Schema(TRUE, {}, {}), Schema(FALSE, {}, {}) }

OutputSchemas ==
  { Schema(TRUE, {"confidence", "rationale"}, {"confidence"}),
    Schema(TRUE, {}, {}),
    Schema(FALSE, {}, {}) }

InputDocs == { EmptyDoc, [k \in {"task"} |-> String] }

\* jsonschema.validate raises SchemaError for a malformed schema, else the best
\* matching ValidationError, else nothing; the wrapper turns the exception into
\* a one-element list.
validate_data(data, schema, label) ==
  IF ~schema.wellFormed THEN <<"Schema error">>
  ELSE IF \/ ~(schema.required \subseteq DOMAIN data)
          \/ \E k \in schema.numeric \cap DOMAIN data : data[k].t # "number"
         THEN <<label \o " validation error">>
         ELSE <<>>

(***************************************************************************)
(* constraints.yaml as yaml.safe_load returns it: None for an empty file,   *)
(* else a mapping whose confidence_thresholds is absent, null or a mapping  *)
(* with or without minimum_viable (hundredths).                             *)
(***************************************************************************)
ConstraintsDoc(doc, th, has, mv) ==
  [doc |-> doc, thresholds |-> th, hasMinimum |-> has, minimum_viable |-> mv]

ConstraintDocs ==
  { ConstraintsDoc("null", "absent", FALSE, 0),
    ConstraintsDoc("mapping", "absent", FALSE, 0),
    ConstraintsDoc("mapping", "null", FALSE, 0),
    ConstraintsDoc("mapping", "mapping", FALSE, 0),
    ConstraintsDoc("mapping", "mapping", TRUE, 60),
    ConstraintsDoc("mapping", "mapping", TRUE, 70) }

\* thresholds.get("minimum_viable", 0.6)
DEFAULT_MINIMUM_VIABLE == 60

\* response[:200]
PREVIEW_CHARS == 200

(***************************************************************************)
(* Module directories of a pipeline run.                                    *)
(***************************************************************************)
OtherFiles == {"input.schema.json", "output.schema.json", "constraints.yaml", "prompt.txt"}

\* The content of the files of the module directory a run resolves to.
ModuleDirs ==
  [ frontmatter : {"ok", "absent", "unclosed"},
    input_schema : InputSchemas,
    output_schema : OutputSchemas,
    constraints : ConstraintDocs ]

\* The stores of a pipeline run: "repo" is <repository>/cognitive/modules, the
\* only place run_module.py looks in.
PipelineStore ==
  [b \in Bases \cup {"repo"} |->
    [n \in ModuleNames |->
      CASE b \in {"user", "repo", "a"} /\ n = "m" -> Dir({"module.md"} \cup OtherFiles)
        [] b \in {"local", "repo"} /\ n = "y"     -> Dir({"module.yaml"} \cup OtherFiles)
        [] OTHER                                  -> Absent]]

\* name_or_path: a bare name (base "") or the path <base>/<name> of a directory.
Target(base, name) == [base |-> base, name |-> name]

RunnerTargets  == { Target("", "m"), Target("", "y"), Target("", "ghost"), Target("a", "m") }
RuntimeTargets == { Target("", "m"), Target("", "y"), Target("", "ghost") }

RunArgs(t, i, vi, vo) ==
  [target |-> t, input |-> i, validate_input |-> vi, validate_output |-> vo]

(***************************************************************************)
(* Resolve and Load: runner.py load_module (16-62), run_module.py           *)
(* load_module (23-64).  A result is [ok, path / module, error].            *)
(***************************************************************************)
Failure(type, stage) == [type |-> type, stage |-> stage]

\* runner.py lines 19-26
ResolveRunner(store, env, t) ==
  IF t.base # "" /\ IsDir(store, <<t.base, t.name>>) THEN <<t.base, t.name>>
  ELSE IF t.base # "" THEN None
  ELSE find_module(store, env, t.name)

\* run_module.py lines 25-28
ResolveRuntime(store, t) ==
  IF Exists(store, <<"repo", t.name>>) THEN <<"repo", t.name>> ELSE None

\* The frontmatter block of module.md: runner.py lines 33-37 keep metadata = {}
\* unless the text starts with the delimiter and splits in three.
MetadataRunner(fm) ==
  IF fm = "ok" THEN [ok |-> TRUE, metadata |-> "parsed"]
  ELSE [ok |-> TRUE, metadata |-> "empty"]

\* run_module.py lines 35-39: the three-way unpacking of split('---', 2) raises
\* ValueError when the block is not closed.
MetadataRuntime(fm) ==
  IF fm = "ok" THEN [ok |-> TRUE, metadata |-> "parsed"]
  ELSE IF fm = "unclosed" THEN [ok |-> FALSE, metadata |-> "empty"]
  ELSE [ok |-> TRUE, metadata |-> "empty"]

\* The open() calls of load_module, in order; both implementations open
\* module.md and nothing else as the descriptor.
LoadError(store, path, md) ==
  IF ~HasFile(store, path, "module.md") THEN "FileNotFoundError"
  ELSE IF ~md.ok THEN "ValueError"
  ELSE IF \E f \in OtherFiles : ~HasFile(store, path, f) THEN "FileNotFoundError"
  ELSE "none"

Descriptor(path, md, dir) ==
  [name |-> path[2], path |-> path, metadata |-> md.metadata,
   input_schema |-> dir.input_schema, output_schema |-> dir.output_schema,
   constraints |-> dir.constraints, prompt |-> "prompt.txt"]

(***************************************************************************)
(* build_prompt (runner.py 77-91) / build_llm_prompt (run_module.py 91-106):*)
(* the parts, in the order they are joined.                                 *)
(***************************************************************************)
build_prompt(m, input_data) ==
  << [part |-> "prompt", of |-> m.name],
     [part |-> "constraints", of |-> m.constraints.doc],
     [part |-> "input", of |-> DOMAIN input_data],
     [part |-> "instructions", of |-> "json only"] >>

(***************************************************************************)
(* llm_stub.py call_llm (27-47) and the providers behind it.                *)
(***************************************************************************)
Providers == {"openai", "anthropic", "ollama", "stub"}

\* What can be wrong around a provider: the optional dependency is missing,
\* the API key is not set, the network call fails.
Worlds == {"ok", "no_dependency", "no_key", "no_network"}

Reply(text)       == [ok |-> TRUE, text |-> text, error |-> "none"]
ProviderError(e)  == [ok |-> FALSE, text |-> <<BLANK>>, error |-> e]

\* json.dumps of the fallback document of _call_stub (lines 163-171).
StubFallback == << "{", "\"rationale\": {}", "\"confidence\": 0.0", "}" >>

_call_remote(provider, world, text) ==
  IF world = "no_dependency" THEN ProviderError("ImportError")
  ELSE IF world = "no_key" /\ provider # "ollama" THEN ProviderError("ValueError")
  ELSE IF world = "no_network" THEN ProviderError("ConnectionError")
  ELSE Reply(text)

\* _call_stub returns the content of an examples/output.json or the fallback;
\* `text` is that file's content.
_call_stub(text) == Reply(text)

call_llm(provider, world, text) ==
  IF provider \in {"openai", "anthropic", "ollama"}
    THEN _call_remote(provider, world, text)
    ELSE _call_stub(text)

\* cognitive/providers.py call_llm, which runner.py imports: one capability
\* generate(prompt, model?) -> text that may fail with a connectivity or
\* authentication error.
providers_call_llm(provider, world, text) == call_llm(provider, world, text)

Fenced(opening, text) == <<opening>> \o text \o <<FENCE>>

\* The response texts the provider answers with.
ProviderResponses ==
  { << "{", "\"confidence\": 0.5", "\"rationale\": {}", "}" >>,
    << "{", "\"confidence\": 0.9", "\"rationale\": {}", "}" >>,
    << "{", "\"confidence\": 0.65", "\"rationale\": {}", "}" >>,
    << "{", "\"confidence\": \"high\"", "\"rationale\": {}", "}" >>,
    << "{", "\"rationale\": {}", "}" >>,
    << "{", "}" >>,
    StubFallback,
    Fenced(FENCE_JSON, << "{", "\"confidence\": 0.5", "\"rationale\": {}", "}" >>),
    << BLANK, FENCE, "{", "\"confidence\": 0.9", "\"rationale\": {}", "}", FENCE_INDENTED, BLANK >>,
    << FENCE, "{", "\"confidence\": 0.9", "\"rationale\": {}", "}", FENCE, PROSE >>,
    << FENCE_JSON, "{", "}" >>,
    << PROSE >>,
    << PROSE, "{", "}" >>,
    << PROSE, PROSE, PROSE >> }

(***************************************************************************)
(* Installer: source strings.  A source string, a path and a module name   *)
(* are sequences of characters, so that prefixes, slices and splits are    *)
(* computed as registry.py computes them.                                  *)
(***************************************************************************)
StartsWith(s, p) == Len(s) >= Len(p) /\ SubSeq(s, 1, Len(p)) = p

\* s[n:]
Drop(s, n) == SubSeq(s, n + 1, Len(s))

\* Position of the first occurrence of character c in s, 0 when there is none.
IndexOf(s, c) ==
  IF \E i \in 1..Len(s) : s[i] = c
    THEN CHOOSE i \in 1..Len(s) : s[i] = c /\ \A j \in 1..(i - 1) : s[j] # c
    ELSE 0

\* s.split(c)
RECURSIVE Split(_, _)
Split(s, c) ==
  IF IndexOf(s, c) = 0 THEN <<s>>
  ELSE <<SubSeq(s, 1, IndexOf(s, c) - 1)>> \o Split(Drop(s, IndexOf(s, c)), c)

\* Path(p).name: the last component, trailing separators ignored.
RECURSIVE Basename(_)
Basename(p) ==
  IF p = <<>> THEN <<>>
  ELSE IF p[Len(p)] = "/" THEN Basename(SubSeq(p, 1, Len(p) - 1))
  ELSE Split(p, "/")[Len(Split(p, "/"))]

\* The source strings an install command is given.
Sources ==
  { <<"l", "o", "c", "a", "l", ":", "/", "s", "/", "m">>, <<"/", "s", "/", "m">>, <<".", "/", "m">>, <<".", ".", "/", "m">>,
    <<"r", "e", "g", "i", "s", "t", "r", "y", ":", "m">>, <<"r", "e", "g", "i", "s", "t", "r", "y", ":", "y">>,
    <<"g", "i", "t", "h", "u", "b", ":", "o", "/", "r", "/", "m">>, <<"g", "i", "t", "h", "u", "b", ":", "o", "/", "r">>, <<"g", "i", "t", "h", "u", "b", ":", "o">>,
    <<"g", "i", "t", "+", "h", "t", "t", "p", "s", ":", "/", "/", "h", "/", "r", "#", "s", "u", "b", "d", "i", "r", "=", "m">>, <<"g", "i", "t", "+", "h", "t", "t", "p", "s", ":", "/", "/", "h", "/", "r">>,
    <<"h", "t", "t", "p", "s", ":", "/", "/", "g", "i", "t", "h", "u", "b", ".", "c", "o", "m", "/", "o", "/", "r">>,
    <<"h", "t", "t", "p", "s", ":", "/", "/", "g", "i", "t", "h", "u", "b", ".", "c", "o", "m", "/", "o", "/", "r", "/", "m">>,
    <<"/", "u", "/", "m">>,
    <<"m">>, <<"s", "/", "m">>, <<".", "m">>, <<"L", "o", "c", "a", "l", ":", "/", "s", "/", "m">>, <<"g", "i", "t", "h", "u", "b", ".", "c", "o", "m", "/", "o", "/", "r">>, <<"h", "t", "t", "p", "s", ":", "/", "/", "g", "i", "t", "l", "a", "b", ".", "c", "o", "m", "/", "o", "/", "r">> }

\* The string literals of registry.py's installers.
Lit ==
  [ dot_git |-> <<".", "g", "i", "t">>,
    git_plus |-> <<"g", "i", "t", "+">>,
    github |-> <<"g", "i", "t", "h", "u", "b", ":">>,
    github_host |-> <<"h", "t", "t", "p", "s", ":", "/", "/", "g", "i", "t", "h", "u", "b", ".", "c", "o", "m", "/">>,
    http |-> <<"h", "t", "t", "p">>,
    https |-> <<"h", "t", "t", "p", "s", ":", "/", "/", "g", "i", "t", "h", "u", "b", ".", "c", "o", "m">>,
    local |-> <<"l", "o", "c", "a", "l", ":">>,
    registry |-> <<"r", "e", "g", "i", "s", "t", "r", "y", ":">>,
    subdir |-> <<"s", "u", "b", "d", "i", "r", "=">> ]

\* registry.py lines 343-358: the branch install_module takes, and the argument
\* it hands to the installer of that branch.
LocalOnly(source) == [method |-> "install_from_local", arg |-> source]
NoRegistryAttempt(source) ==
  IF StartsWith(source, Lit.local)
    THEN [method |-> "install_from_local", arg |-> Drop(source, 6)]
  ELSE IF StartsWith(source, Lit.registry)
    THEN [method |-> "install_from_registry", arg |-> Drop(source, 9)]
  ELSE IF \/ StartsWith(source, Lit.github) \/ StartsWith(source, Lit.git_plus)
          \/ StartsWith(source, Lit.https)
    THEN [method |-> "install_from_git", arg |-> source]
  ELSE [method |-> "install_from_local", arg |-> source]
install_module(source) ==
  IF StartsWith(source, Lit.local)
    THEN [method |-> "install_from_local", arg |-> Drop(source, 6)]
  ELSE IF StartsWith(source, Lit.registry)
    THEN [method |-> "install_from_registry", arg |-> Drop(source, 9)]
  ELSE IF StartsWith(source, Lit.github) \/ StartsWith(source, Lit.git_plus)
    THEN [method |-> "install_from_git", arg |-> source]
  ELSE IF \/ StartsWith(source, <<"/">>)
          \/ StartsWith(source, <<".", "/">>)
          \/ StartsWith(source, <<".", ".">>)
    THEN [method |-> "install_from_local", arg |-> source]
  ELSE IF StartsWith(source, Lit.https)
    THEN [method |-> "install_from_git", arg |-> source]
  ELSE [method |-> "registry_then_local", arg |-> source]

\* registry.py lines 283-285: the last subdir= part of the fragment wins
RECURSIVE SubdirOf(_, _)
SubdirOf(parts, subdir) ==
  IF parts = <<>> THEN subdir
  ELSE SubdirOf(Tail(parts),
                IF StartsWith(Head(parts), Lit.subdir)
                  THEN Drop(Head(parts), 7) ELSE subdir)

\* registry.py lines 268-285: the clone URL and the subdirectory install_from_git
\* derives from its url argument (subdir None when there is none).
ParseGitUrl(url) ==
  IF StartsWith(url, Lit.github)
    THEN LET rest  == Drop(url, 7)
             i1    == IndexOf(rest, "/")
             after == Drop(rest, i1)
             i2    == IndexOf(after, "/")
             org   == SubSeq(rest, 1, i1 - 1)
             repo  == IF i2 = 0 THEN after ELSE SubSeq(after, 1, i2 - 1)
         IN IF i1 = 0 THEN [ok |-> FALSE, url |-> url, subdir |-> None]
            ELSE [ok |-> TRUE,
                  url |-> Lit.github_host \o org \o <<"/">> \o repo \o Lit.dot_git,
                  subdir |-> IF i2 = 0 THEN None ELSE Drop(after, i2)]
  ELSE IF StartsWith(url, Lit.git_plus)
    THEN LET rest == Drop(url, 4)
             h    == IndexOf(rest, "#")
         IN IF h = 0 THEN [ok |-> TRUE, url |-> rest, subdir |-> None]
            ELSE [ok |-> TRUE, url |-> SubSeq(rest, 1, h - 1),
                  subdir |-> SubdirOf(Split(Drop(rest, h), "&"), None)]
  ELSE [ok |-> TRUE, url |-> url, subdir |-> None]

(***************************************************************************)
(* Installer: paths, directories, the user-global store and the manifest.  *)
(* The store and the manifest map a module name to an entry; a name that   *)
(* is not in the domain is absent.                                         *)
(***************************************************************************)
\* The working directory of the command, as path components.
CWD == << <<"w">> >>

\* Path.resolve() of an existing path without symbolic links: an absolute
\* path with the "." and ".." components worked out.
RECURSIVE Walk(_, _)
Walk(stack, segs) ==
  IF segs = <<>> THEN stack
  ELSE LET h == Head(segs)
       IN Walk(IF h = <<>> \/ h = <<".">> THEN stack
               ELSE IF h = <<".", ".">>
                 THEN IF stack = <<>> THEN stack ELSE SubSeq(stack, 1, Len(stack) - 1)
               ELSE Append(stack, h),
               Tail(segs))

RECURSIVE JoinPath(_)
JoinPath(segs) ==
  IF segs = <<>> THEN <<>> ELSE <<"/">> \o Head(segs) \o JoinPath(Tail(segs))

PathResolve(p) ==
  JoinPath(Walk(IF StartsWith(p, <<"/">>) THEN <<>> ELSE CWD, Split(p, "/")))

\* tempfile.TemporaryDirectory(): the directory made on entry of the with
\* block, and the store of temporary directories after its exit, which runs
\* whether the block returned or raised (exc is the exception, "none" if none).
TMPDIR == <<"/", "t", "m", "p", "/", "t">>
CleanupOnSuccess(ts, t, exc) == IF exc = "none" THEN ts \ {t} ELSE ts
TemporaryDirectoryExit(ts, t, exc) == ts \ {t}

\* registry.py line 301-303: the module source inside the clone
CloneSource(subdir) ==
  IF subdir = None THEN TMPDIR \o <<"/", "r", "e", "p", "o">>
  ELSE TMPDIR \o <<"/", "r", "e", "p", "o", "/">> \o subdir

ExampleFiles  == {"examples/input.json", "examples/output.json"}
RequiredFiles == {"module.md"} \cup OtherFiles

\* What may sit at the path an installer is pointed to.
SourceDirs ==
  { Absent, Dir({"README.md"}), Dir(RequiredFiles), Dir(RequiredFiles \cup ExampleFiles) }

\* _is_valid_module(source) for a source path holding dir
AnyDirectory(dir) == TRUE
ValidSource(dir) == _is_valid_module([at |-> [it |-> dir]], <<"at", "it">>)

\* registry.py line 34: the directory of the user-global store, and the name
\* under which path p sits in it (None when p is not an entry of the store).
USER_MODULES_DIR == <<"/", "u">>
StoredAt(p) ==
  IF StartsWith(p, USER_MODULES_DIR \o <<"/">>) /\ Len(p) > Len(USER_MODULES_DIR) + 1
    THEN Drop(p, Len(USER_MODULES_DIR) + 1)
    ELSE None

\* shutil.rmtree(target)
rmtree(store, n) == [k \in DOMAIN store \ {n} |-> store[k]]

\* registry.py lines 124-127: the prior directory is removed, then the source
\* tree is copied; files is what the copy managed to write.
MergeTree(store, n, files) ==
  (n :> Dir(files \cup (IF n \in DOMAIN store THEN store[n].files ELSE {}))) @@ store
ReplaceTree(store, n, files) == (n :> Dir(files)) @@ rmtree(store, n)

\* registry.py lines 135-158: the entry of name is set, the others kept
_record_module_source(man, name, source) ==
  (name :> [source |-> source, github_url |-> None, module_path |-> None,
            installed_at |-> name]) @@ man

\* registry.py lines 361-367
KeepInstalled(store, n) == store
uninstall_module(store, n) ==
  IF n \in DOMAIN store THEN rmtree(store, n) ELSE store

\* cognitive.validator.validate_module, as the design describes it: the
\* module is valid when the descriptor, the schema, constraints and prompt
\* files and both example documents are there; errors name what is missing.
validate_module(store, n) ==
  LET missing == { f \in RequiredFiles \cup ExampleFiles :
                     n \notin DOMAIN store \/ f \notin store[n].files }
  IN [is_valid |-> missing = {}, errors |-> missing]

\* The Registry Index fetch_registry returns: name -> entry.
Indexes ==
  { <<>>,
    (<<"m">> :> [source |-> <<"l", "o", "c", "a", "l", ":", "/", "s", "/", "m">>]),
    (<<"m">> :> [source |-> <<"g", "i", "t", "h", "u", "b", ":", "o", "/", "r", "/", "m">>]),
    (<<"m">> :> [source |-> None]),
    (<<"m">> :> [source |-> <<"r", "e", "g", "i", "s", "t", "r", "y", ":", "m">>]),
    (<<"m">> :> [source |-> <<"r", "e", "g", "i", "s", "t", "r", "y", ":", "y">>])
      @@ (<<"y">> :> [source |-> <<"r", "e", "g", "i", "s", "t", "r", "y", ":", "m">>]) }

(***************************************************************************)
(* Resolver specification                                                  *)
(***************************************************************************)
ResolverIdle ==
  /\ custom = <<>>
  /\ fs = EmptyStore
  /\ rop = <<"none">>
  /\ rpaths = None
  /\ rfound = None
  /\ rlist = None

\* The environment creates one entry of a store, before any query is made.
Place(b, n, e) ==
  /\ rop = <<"none">>
  /\ ~Exists(fs, <<b, n>>)
  /\ NumEntries(fs) < MaxEntries
  /\ fs' = [fs EXCEPT ![b][n] = e]
  /\ UNCHANGED <<custom, rop, rpaths, rfound, rlist>>

GetSearchPaths ==
  /\ rop = <<"none">>
  /\ rop' = <<"search_paths">>
  /\ rpaths' = get_search_paths(custom)
  /\ rfound' = None
  /\ rlist' = None
  /\ UNCHANGED <<custom, fs>>

FindModule(n) ==
  /\ rop = <<"none">>
  /\ rop' = <<"find", n>>
  /\ rfound' = find_module(fs, custom, n)
  /\ rpaths' = None
  /\ rlist' = None
  /\ UNCHANGED <<custom, fs>>

ListModules(order) ==
  /\ rop = <<"none">>
  /\ rop' = <<"list">>
  /\ rlist' = list_modules(fs, custom, order)
  /\ rpaths' = None
  /\ rfound' = None
  /\ UNCHANGED <<custom, fs>>

\* uninstall_module(name), lines 361-367, on the user-global store; the
\* names "." and "" make the target the directory of the store itself.
\* shutil.rmtree raises on a path that is not a directory.
UninstallModule(n) ==
  /\ rop = <<"none">>
  /\ IF n = "."
       THEN /\ fs' = [fs EXCEPT !["user"] = [k \in ModuleNames |-> Absent]]
            /\ rop' = <<"uninstall", n, "True">>
       ELSE IF ~Exists(fs, <<"user", n>>)
         THEN /\ fs' = fs
              /\ rop' = <<"uninstall", n, "False">>
       ELSE IF IsDir(fs, <<"user", n>>)
         THEN /\ fs' = [fs EXCEPT !["user"][n] = Absent]
              /\ rop' = <<"uninstall", n, "True">>
       ELSE /\ fs' = fs
            /\ rop' = <<"uninstall", n, "NotADirectoryError">>
  /\ rpaths' = None
  /\ rfound' = None
  /\ rlist' = None
  /\ UNCHANGED custom

ParseIdle ==
  /\ ptext = <<>>
  /\ ppc = "idle"
  /\ pplain = None
  /\ pwrapped = None

PipeIdle ==
  /\ impl = "runner"
  /\ args = None
  /\ moddir = None
  /\ pc = "Idle"
  /\ trace = <<>>
  /\ module = None
  /\ prompt = None
  /\ invokes = 0
  /\ response = None
  /\ output = None
  /\ result = None
  /\ err = None
  /\ diag = {}

InstallIdle ==
  /\ ientry = "install_cmd"
  /\ iorig = None
  /\ isource = <<>>
  /\ iname = None
  /\ ipc = "Idle"
  /\ icalls = <<>>
  /\ ifallbacks = <<>>
  /\ idepth = 0
  /\ itmp = None
  /\ temps = {}
  /\ ipath = <<>>
  /\ isrcdir = Absent
  /\ itarget = None
  /\ ustore = <<>>
  /\ manifest = <<>>
  /\ iraise = "none"
  /\ iexit = "none"
  /\ iout = {}
  /\ istart = None
  /\ izip = None

RegistryIdle ==
  /\ nprocs = 0
  /\ cache = [exists |-> FALSE, text |-> <<>>]
  /\ procs = <<>>

ValidatorIdle ==
  /\ vmod = <<>>
  /\ vout = <<>>

RaceIdle ==
  /\ rstore = <<>>
  /\ rmanifest = [exists |-> FALSE, ok |-> FALSE, entries |-> <<>>]
  /\ racers = <<>>

RestIdle == RegistryIdle /\ ValidatorIdle /\ RaceIdle

InitResolver ==
  /\ custom \in CustomSettings
  /\ fs = EmptyStore
  /\ rop = <<"none">>
  /\ rpaths = None
  /\ rfound = None
  /\ rlist = None
  /\ ParseIdle
  /\ PipeIdle
  /\ InstallIdle
  /\ RestIdle

NextResolver ==
  \/ \E b \in Bases, n \in ModuleNames, e \in PlacedEntries :
       Place(b, n, e) /\ UNCHANGED <<parseVars, pipeVars, installVars, restVars>>
  \/ GetSearchPaths /\ UNCHANGED <<parseVars, pipeVars, installVars, restVars>>
  \/ \E n \in ModuleNames : FindModule(n) /\ UNCHANGED <<parseVars, pipeVars, installVars, restVars>>
  \/ \E order \in DirOrders : ListModules(order) /\ UNCHANGED <<parseVars, pipeVars, installVars, restVars>>
  \/ \E n \in ModuleNames \cup {"."} :
       UninstallModule(n) /\ UNCHANGED <<parseVars, pipeVars, installVars, restVars>>

SpecResolver == InitResolver /\ [][NextResolver]_vars

(***************************************************************************)
(* Parser specification: both parsers applied to a text T and to T wrapped  *)
(* in a fenced block.                                                       *)
(***************************************************************************)
InitParse ==
  /\ ptext \in Texts
  /\ ppc = "idle"
  /\ pplain = None
  /\ pwrapped = None
  /\ ResolverIdle
  /\ PipeIdle
  /\ InstallIdle
  /\ RestIdle

ParseBoth(opening) ==
  /\ ppc = "idle"
  /\ ppc' = "parsed"
  /\ pplain' = [runner |-> parse_llm_response(ptext), runtime |-> parse_runtime(ptext)]
  /\ pwrapped' = [opening |-> opening,
                  runner |-> parse_llm_response(Wrap(ptext, opening)),
                  runtime |-> parse_runtime(Wrap(ptext, opening))]
  /\ UNCHANGED ptext

NextParse ==
  \E opening \in {FENCE, FENCE_JSON} :
    ParseBoth(opening) /\ UNCHANGED <<resolverVars, pipeVars, installVars, restVars>>

SpecParse == InitParse /\ [][NextParse]_vars

(***************************************************************************)
(* run_module: runner.py lines 113-155, run_module.py lines 109-179.        *)
(* One action per stage; pc is the stage about to run.  A stage that raises *)
(* records the exception in err.                                            *)
(***************************************************************************)
\* if validate_input: ...   (runner.py 137, run_module.py 126)
AfterLoad(validate_input) ==
  IF validate_input THEN "ValidateInput" ELSE "BuildPrompt"

\* if errors: raise ValueError(...)   (runner.py 139-140, run_module.py 128-132)
IgnoreInputErrors(errors) == "BuildPrompt"
AfterValidateInput(errors) ==
  IF errors # <<>> THEN "Failed" ELSE "BuildPrompt"

\* response = call_llm(...): an exception of the provider leaves run_module
\* (runner.py 144, run_module.py 140)
RetryInvoke(ok) == IF ok THEN "ParseResponse" ELSE "Invoke"
AfterInvoke(ok) == IF ok THEN "ParseResponse" ELSE "Failed"

\* What follows the output checks: run_module.py goes on to the confidence
\* check (168-179), runner.py returns (155).
AfterOutputChecks(which) ==
  IF which = "runtime" THEN "CheckConfidence" ELSE "Return"

\* json.loads raised, or: if validate_output: ...  (runner.py 147-150,
\* run_module.py 151-159)
IgnoreDecodeError(ok, validate_output, which) ==
  IF validate_output THEN "ValidateOutput" ELSE AfterOutputChecks(which)
AfterParse(ok, validate_output, which) ==
  IF ~ok THEN "Failed"
  ELSE IF validate_output THEN "ValidateOutput"
  ELSE AfterOutputChecks(which)

\* if errors: raise ValueError(...)   (runner.py 152-153, run_module.py 161-165)
IgnoreOutputErrors(errors, which) == AfterOutputChecks(which)
AfterValidateOutput(errors, which) ==
  IF errors # <<>> THEN "Failed" ELSE AfterOutputChecks(which)

\* run_module.py lines 169-177, for an output that holds "confidence":
\* the exception raised, or the line printed.
check_confidence(confidence, constraints) ==
  IF constraints.doc = "null" THEN "AttributeError"
  ELSE IF constraints.thresholds = "null" THEN "AttributeError"
  ELSE LET min_viable == IF constraints.thresholds = "mapping" /\ constraints.hasMinimum
                           THEN constraints.minimum_viable
                           ELSE DEFAULT_MINIMUM_VIABLE
       IN IF confidence.t # "number" THEN "TypeError"
          ELSE IF confidence.n < min_viable THEN "low_confidence"
          ELSE "confidence_ok"

Printed(what, chars) == [what |-> what, chars |-> chars]

Resolve ==
  /\ pc = "Resolve"
  /\ LET path == IF impl = "runner" THEN ResolveRunner(fs, custom, args.target)
                 ELSE ResolveRuntime(fs, args.target)
     IN /\ trace' = Append(trace, "Resolve")
        /\ IF path = None
             THEN /\ pc' = "Failed"
                  /\ err' = Failure("FileNotFoundError", "Resolve")
                  /\ UNCHANGED module
             ELSE /\ pc' = "Load"
                  /\ module' = [path |-> path]
                  /\ UNCHANGED err
  /\ UNCHANGED <<impl, args, moddir, prompt, invokes, response, output, result, diag>>

Load ==
  /\ pc = "Load"
  /\ LET md == IF impl = "runner" THEN MetadataRunner(moddir.frontmatter)
               ELSE MetadataRuntime(moddir.frontmatter)
         e == LoadError(fs, module.path, md)
     IN /\ trace' = Append(trace, "Load")
        /\ IF e # "none"
             THEN /\ pc' = "Failed"
                  /\ err' = Failure(e, "Load")
                  /\ UNCHANGED module
             ELSE /\ pc' = AfterLoad(args.validate_input)
                  /\ module' = Descriptor(module.path, md, moddir)
                  /\ UNCHANGED err
  /\ UNCHANGED <<impl, args, moddir, prompt, invokes, response, output, result, diag>>

ValidateInput ==
  /\ pc = "ValidateInput"
  /\ LET errors == validate_data(args.input, module.input_schema, "Input")
     IN /\ trace' = Append(trace, "ValidateInput")
        /\ err' = IF errors # <<>> THEN Failure("ValueError", "ValidateInput") ELSE err
        /\ pc' = AfterValidateInput(errors)
  /\ UNCHANGED <<impl, args, moddir, module, prompt, invokes, response, output, result, diag>>

BuildPrompt ==
  /\ pc = "BuildPrompt"
  /\ trace' = Append(trace, "BuildPrompt")
  /\ prompt' = build_prompt(module, args.input)
  /\ pc' = "Invoke"
  /\ UNCHANGED <<impl, args, moddir, module, invokes, response, output, result, err, diag>>

Invoke(provider, world, text) ==
  /\ pc = "Invoke"
  /\ LET r == IF impl = "runner" THEN providers_call_llm(provider, world, text)
              ELSE call_llm(provider, world, text)
     IN /\ trace' = Append(trace, "Invoke")
        /\ invokes' = invokes + 1
        /\ response' = IF r.ok THEN r.text ELSE response
        /\ err' = IF r.ok THEN err ELSE Failure(r.error, "Invoke")
        /\ pc' = AfterInvoke(r.ok)
  /\ UNCHANGED <<impl, args, moddir, module, prompt, output, result, diag>>

ParseResponse ==
  /\ pc = "ParseResponse"
  /\ LET parsed == IF impl = "runner" THEN parse_llm_response(response)
                   ELSE parse_runtime(response)
     IN /\ trace' = Append(trace, "ParseResponse")
        /\ output' = parsed
        /\ err' = IF parsed.ok THEN err ELSE Failure("JSONDecodeError", "ParseResponse")
        \* run_module.py 153-156 prints response[:200] before re-raising;
        \* runner.py has no handler.
        /\ diag' = IF ~parsed.ok /\ impl = "runtime"
                     THEN diag \cup {Printed("preview", Min(PREVIEW_CHARS, CharLen(response)))}
                     ELSE diag
        /\ pc' = AfterParse(parsed.ok, args.validate_output, impl)
  /\ UNCHANGED <<impl, args, moddir, module, prompt, invokes, response, result>>

ValidateOutput ==
  /\ pc = "ValidateOutput"
  /\ LET errors == validate_data(output.doc, module.output_schema, "Output")
     IN /\ trace' = Append(trace, "ValidateOutput")
        /\ err' = IF errors # <<>> THEN Failure("ValueError", "ValidateOutput") ELSE err
        /\ pc' = AfterValidateOutput(errors, impl)
  /\ UNCHANGED <<impl, args, moddir, module, prompt, invokes, response, output, result, diag>>

CheckConfidence ==
  /\ pc = "CheckConfidence"
  /\ trace' = Append(trace, "CheckConfidence")
  /\ IF "confidence" \notin DOMAIN output.doc
       THEN /\ pc' = "Return"
            /\ UNCHANGED <<err, diag>>
       ELSE LET c == check_confidence(output.doc["confidence"], module.constraints)
            IN IF c \in {"AttributeError", "TypeError"}
                 THEN /\ pc' = "Failed"
                      /\ err' = Failure(c, "CheckConfidence")
                      /\ UNCHANGED diag
                 ELSE /\ pc' = "Return"
                      /\ diag' = diag \cup {Printed(c, 0)}
                      /\ UNCHANGED err
  /\ UNCHANGED <<impl, args, moddir, module, prompt, invokes, response, output, result>>

\* return output_data
Return ==
  /\ pc = "Return"
  /\ trace' = Append(trace, "Done")
  /\ result' = [doc |-> output.doc]
  /\ pc' = "Done"
  /\ UNCHANGED <<impl, args, moddir, module, prompt, invokes, response, output, err, diag>>

Init ==
  /\ impl \in {"runner", "runtime"}
  /\ args \in IF impl = "runner"
                THEN { RunArgs(t, i, vi, vo) :
                         t \in RunnerTargets, i \in InputDocs, vi \in BOOLEAN, vo \in BOOLEAN }
                ELSE { RunArgs(t, i, v, v) :
                         t \in RuntimeTargets, i \in InputDocs, v \in BOOLEAN }
  /\ moddir \in ModuleDirs
  /\ pc = "Resolve"
  /\ trace = <<>>
  /\ module = None
  /\ prompt = None
  /\ invokes = 0
  /\ response = None
  /\ output = None
  /\ result = None
  /\ err = None
  /\ diag = {}
  /\ custom = <<>>
  /\ fs = PipelineStore
  /\ rop = <<"none">>
  /\ rpaths = None
  /\ rfound = None
  /\ rlist = None
  /\ ParseIdle
  /\ InstallIdle
  /\ RestIdle

Next ==
  \/ Resolve /\ UNCHANGED <<resolverVars, parseVars, installVars, restVars>>
  \/ Load /\ UNCHANGED <<resolverVars, parseVars, installVars, restVars>>
  \/ ValidateInput /\ UNCHANGED <<resolverVars, parseVars, installVars, restVars>>
  \/ BuildPrompt /\ UNCHANGED <<resolverVars, parseVars, installVars, restVars>>
  \/ \E provider \in Providers, world \in Worlds, text \in ProviderResponses :
       Invoke(provider, world, text) /\ UNCHANGED <<resolverVars, parseVars, installVars, restVars>>
  \/ ParseResponse /\ UNCHANGED <<resolverVars, parseVars, installVars, restVars>>
  \/ ValidateOutput /\ UNCHANGED <<resolverVars, parseVars, installVars, restVars>>
  \/ CheckConfidence /\ UNCHANGED <<resolverVars, parseVars, installVars, restVars>>
  \/ Return /\ UNCHANGED <<resolverVars, parseVars, installVars, restVars>>

Spec == Init /\ [][Next]_vars

(***************************************************************************)
(* Installer specification: cli.py install_cmd (142-172) over registry.py   *)
(* install_module (331-358), install_from_registry (315-328),               *)
(* install_from_git (259-312) and install_from_local (111-132); and         *)
(* install_from_github_url (161-247) called on its own.  One action per     *)
(* step; ipc is the step about to run.  A step that raises moves to         *)
(* "Raise", from where the exception propagates outwards.                   *)
(***************************************************************************)
\* raise e
Raising(e) == iraise' = e /\ ipc' = "Raise"

\* registry.py lines 179-185: the shorthand is completed, then the URL must
\* match https://github.com/<org>/<repo>
github_match(url) ==
  LET full == IF StartsWith(url, Lit.http) THEN url ELSE Lit.github_host \o url
      segs == Split(Drop(full, Len(Lit.github_host)), "/")
  IN /\ StartsWith(full, Lit.github_host)
     /\ Len(segs) >= 2
     /\ segs[1] # <<>>
     /\ segs[2] # <<>>

\* registry.py lines 219-223: the places a module path is looked for under the
\* extracted root, in order.
PossiblePaths(root, module_path) ==
  << root \o <<"/">> \o module_path,
     root \o <<"/", "c", "o", "g", "n", "i", "t", "i", "v", "e", "/", "m", "o", "d", "u", "l", "e", "s", "/">> \o module_path,
     root \o <<"/", "m", "o", "d", "u", "l", "e", "s", "/">> \o module_path >>

\* lines 224-227: index of the first place that exists and is a valid module,
\* 0 when there is none; tree gives what sits at each place.
FirstValid(tree) ==
  IF \E k \in 1..Len(tree) : ValidSource(tree[k])
    THEN CHOOSE k \in 1..Len(tree) :
           /\ ValidSource(tree[k])
           /\ \A j \in 1..(k - 1) : ~ValidSource(tree[j])
    ELSE 0

\* The arguments of an entry point: install_cmd(source, name) and
\* install_from_github_url(url, module_path, name); name is None when not given.
InstallCalls(entry) ==
  IF entry = "install_cmd"
    THEN [source : Sources, name : {None, <<"y">>}, module_path : {None}]
    ELSE [source : { <<"h", "t", "t", "p", "s", ":", "/", "/", "g", "i", "t", "h", "u", "b", ".", "c", "o", "m", "/", "o", "/", "r">>, <<"o", "/", "r">>,
                     <<"h", "t", "t", "p", ":", "/", "/", "g", "i", "t", "h", "u", "b", ".", "c", "o", "m", "/", "o", "/", "r">>, <<"o">>,
                     <<"o", "/", "r", ".", "g", "i", "t">>, <<"o", "/", "w", "i", "d", "g", "e", "t">>, <<"h", "t", "t", "p", "s", ":", "/", "/", "g", "i", "t", "h", "u", "b", ".", "c", "o", "m", "/", "o", "/", "r", ".", "g", "i", "t">> },
          name : {None, <<"y">>},
          module_path : {None, <<"m">>}]

\* The user-global store and the manifest an entry point starts from.
InitialWorlds ==
  [store : { <<>>,
             (<<"m">> :> Dir(RequiredFiles \cup ExampleFiles \cup {"notes.txt"})) },
   manifest : { <<>>, _record_module_source(<<>>, <<"m">>, <<"/", "o", "l", "d", "/", "m">>) }]

\* Bound: the nesting depth of install_module calls at which the interpreter
\* gives up with RecursionError (sys.getrecursionlimit() frames, far more in
\* a real run).
RecursionLimit == 4

\* install_module, lines 343-358
Dispatch ==
  /\ ipc = "Dispatch"
  /\ IF idepth >= RecursionLimit
       THEN /\ Raising("RecursionError")
            /\ UNCHANGED <<icalls, idepth, isource, ipath, ifallbacks>>
       ELSE
     LET b == install_module(isource)
     IN /\ icalls' = Append(icalls, b.method)
        /\ idepth' = idepth + 1
        /\ UNCHANGED iraise
        /\ CASE b.method = "install_from_local" ->
                  /\ ipath' = b.arg
                  /\ ipc' = "CheckSource"
                  /\ UNCHANGED <<isource, ifallbacks>>
             [] b.method = "install_from_registry" ->
                  /\ isource' = b.arg
                  /\ ipc' = "Registry"
                  /\ UNCHANGED <<ipath, ifallbacks>>
             [] b.method = "install_from_git" ->
                  /\ ipc' = "Clone"
                  /\ UNCHANGED <<isource, ipath, ifallbacks>>
             [] OTHER ->
                  /\ ifallbacks' = Append(ifallbacks, [source |-> isource, name |-> iname])
                  /\ ipc' = "Registry"
                  /\ UNCHANGED <<isource, ipath>>
  /\ UNCHANGED <<ientry, iorig, iname, itmp, temps, isrcdir, itarget, ustore,
                 manifest, iexit, iout, istart, izip>>

\* install_from_registry, lines 315-328; index is what fetch_registry returned
Registry(index) ==
  /\ ipc = "Registry"
  /\ IF isource \notin DOMAIN index
       THEN Raising("ValueError") /\ UNCHANGED <<isource, iname>>
       ELSE IF index[isource].source = None
         THEN Raising("ValueError") /\ UNCHANGED <<isource, iname>>
         ELSE /\ isource' = index[isource].source
              /\ iname' = isource
              /\ ipc' = "Dispatch"
              /\ UNCHANGED iraise
  /\ UNCHANGED <<ientry, iorig, icalls, ifallbacks, idepth, itmp, temps, ipath,
                 isrcdir, itarget, ustore, manifest, iexit, iout, istart, izip>>

\* install_from_git, lines 268-298: the url is parsed, the temporary directory
\* is made and the repository is cloned into it
Clone(cloned) ==
  /\ ipc = "Clone"
  /\ LET r == ParseGitUrl(isource)
     IN IF ~r.ok
          THEN Raising("ValueError") /\ UNCHANGED <<itmp, temps, ipath>>
          ELSE /\ itmp' = TMPDIR
               /\ temps' = temps \cup {TMPDIR}
               /\ ipath' = CloneSource(r.subdir)
               /\ IF cloned THEN ipc' = "CheckSubdir" /\ UNCHANGED iraise
                  ELSE Raising("RuntimeError")
  /\ UNCHANGED <<ientry, iorig, isource, iname, icalls, ifallbacks, idepth,
                 isrcdir, itarget, ustore, manifest, iexit, iout, istart, izip>>

\* install_from_git, lines 300-312; dir is what sits at the module source
CheckSubdir(dir) ==
  /\ ipc = "CheckSubdir"
  /\ ipath = CloneSource(None) => dir # Absent
  /\ isrcdir' = dir
  /\ IF dir = Absent
       THEN Raising("FileNotFoundError") /\ UNCHANGED iname
       ELSE /\ iname' = IF iname # None THEN iname ELSE Basename(ipath)
            /\ ipc' = "CheckSource"
            /\ UNCHANGED iraise
  /\ UNCHANGED <<ientry, iorig, isource, icalls, ifallbacks, idepth, itmp, temps,
                 ipath, itarget, ustore, manifest, iexit, iout, istart, izip>>

\* str.rstrip(chars): the trailing characters that are in chars are removed
RECURSIVE rstrip(_, _)
rstrip(s, chars) ==
  IF s # <<>> /\ s[Len(s)] \in chars THEN rstrip(SubSeq(s, 1, Len(s) - 1), chars)
  ELSE s

\* registry.py lines 179-191: org and repo are the first two segments after
\* the host, repo.rstrip(".git") is taken, and the URL of the archive of the
\* branch is built
archive_url(url, branch) ==
  LET full == IF StartsWith(url, Lit.http) THEN url ELSE Lit.github_host \o url
      segs == Split(Drop(full, Len(Lit.github_host)), "/")
      org  == segs[1]
      repo == rstrip(segs[2], {".", "g", "i", "t"})
  IN Lit.github_host \o org \o <<"/">> \o repo
       \o <<"/", "a", "r", "c", "h", "i", "v", "e", "/", "r", "e", "f", "s", "/", "h", "e", "a", "d", "s", "/">> \o branch \o <<".", "z", "i", "p">>

\* install_from_github_url, lines 179-199: the url is matched, the archive URL
\* is built and the branch archive is downloaded
Download(downloaded) ==
  /\ ipc = "Download"
  /\ icalls' = Append(icalls, "install_from_github_url")
  /\ izip' = IF github_match(isource) THEN archive_url(isource, <<"m", "a", "i", "n">>) ELSE izip
  /\ IF ~github_match(isource) THEN Raising("ValueError")
     ELSE IF ~downloaded THEN Raising("RuntimeError")
     ELSE ipc' = "Extract" /\ UNCHANGED iraise
  /\ UNCHANGED <<ientry, iorig, isource, iname, ifallbacks, idepth, itmp, temps,
                 ipath, isrcdir, itarget, ustore, manifest, iexit, iout, istart>>

\* lines 202-207: the temporary directory is made and the archive extracted
Extract(extracted) ==
  /\ ipc = "Extract"
  /\ itmp' = TMPDIR
  /\ temps' = temps \cup {TMPDIR}
  /\ IF extracted THEN ipc' = "Locate" /\ UNCHANGED iraise
     ELSE Raising("BadZipFile")
  /\ UNCHANGED <<ientry, iorig, isource, iname, icalls, ifallbacks, idepth, ipath,
                 isrcdir, itarget, ustore, manifest, iexit, iout, istart, izip>>

\* lines 209-244: the module source is looked for under the extracted root;
\* tree is what sits at the three places, root what the root itself holds
Locate(tree, root) ==
  /\ ipc = "Locate"
  /\ root # Absent
  /\ LET mp == iorig.module_path
         k  == FirstValid(tree)
         found == IF mp # None THEN k # 0 ELSE ValidSource(root)
         repo_root == TMPDIR \o <<"/", "r", "-", "m", "a", "i", "n">>
         path == IF mp # None THEN PossiblePaths(repo_root, mp)[k] ELSE repo_root
     IN IF ~found
          THEN /\ Raising(IF mp # None THEN "FileNotFoundError" ELSE "ValueError")
               /\ UNCHANGED <<iname, ipath, isrcdir>>
          ELSE /\ ipath' = path
               /\ isrcdir' = IF mp # None THEN tree[k] ELSE root
               /\ iname' = IF iname # None THEN iname ELSE Basename(path)
               /\ ipc' = "CheckSource"
               /\ UNCHANGED iraise
  /\ UNCHANGED <<ientry, iorig, isource, icalls, ifallbacks, idepth, itmp, temps,
                 itarget, ustore, manifest, iexit, iout, istart, izip>>

\* install_from_local, lines 113-121; dir is what sits at the source path
\* when the path is outside the user-global store; a path inside the store
\* holds what the store holds
CheckSource(dir) ==
  /\ ipc = "CheckSource"
  /\ itmp # None => dir = isrcdir
  /\ LET n  == StoredAt(PathResolve(ipath))
         at == IF n = None THEN dir
               ELSE IF n \in DOMAIN ustore THEN ustore[n] ELSE Absent
     IN /\ n # None => dir = Absent
        /\ isrcdir' = at
        /\ IF at = Absent
             THEN Raising("FileNotFoundError") /\ UNCHANGED <<iname, ipath>>
             ELSE IF ~ValidSource(at)
               THEN Raising("ValueError") /\ UNCHANGED <<iname, ipath>>
               ELSE /\ ipath' = PathResolve(ipath)
                    /\ iname' = IF iname # None THEN iname ELSE Basename(PathResolve(ipath))
                    /\ ipc' = "Copy"
                    /\ UNCHANGED iraise
  /\ UNCHANGED <<ientry, iorig, isource, icalls, ifallbacks, idepth, itmp, temps,
                 itarget, ustore, manifest, iexit, iout, istart, izip>>

\* install_from_local, lines 122-127; files is what the copy wrote before it
\* ended: all of the source when it succeeded, nothing or the first files
\* when it failed part-way.  When the source is the target itself, line 125
\* has removed it before the copy starts, and copytree finds no source.
Copy(files) ==
  /\ ipc = "Copy"
  /\ IF StoredAt(ipath) = iname
       THEN /\ files = {}
            /\ ustore' = rmtree(ustore, iname)
            /\ Raising("FileNotFoundError")
       ELSE /\ files \in {isrcdir.files, {}, isrcdir.files \cap {"module.md", "prompt.txt"}}
            /\ ustore' = ReplaceTree(ustore, iname, files)
            /\ IF files = isrcdir.files THEN ipc' = "Record" /\ UNCHANGED iraise
               ELSE Raising("shutil.Error")
  /\ UNCHANGED <<ientry, iorig, isource, iname, icalls, ifallbacks, idepth, itmp,
                 temps, ipath, isrcdir, itarget, manifest, iexit, iout, istart, izip>>

\* install_from_local, lines 129-132; written is whether installed.json could
\* be written
Record(written) ==
  /\ ipc = "Record"
  /\ IF written
       THEN /\ manifest' = _record_module_source(manifest, iname, ipath)
            /\ itarget' = iname
            /\ ipc' = "Return"
            /\ UNCHANGED iraise
       ELSE Raising("OSError") /\ UNCHANGED <<manifest, itarget>>
  /\ UNCHANGED <<ientry, iorig, isource, iname, icalls, ifallbacks, idepth, itmp,
                 temps, ipath, isrcdir, ustore, iexit, iout, istart, izip>>

\* The target path returns to the entry point: out of the with block of the
\* git and archive installers, then through install_module's callers.
Return_ ==
  /\ ipc = "Return"
  /\ IF itmp # None
       THEN /\ temps' = TemporaryDirectoryExit(temps, itmp, "none")
            /\ itmp' = None
            /\ UNCHANGED <<ipc, ifallbacks, iexit>>
       ELSE /\ ifallbacks' = <<>>
            /\ ipc' = IF ientry = "install_cmd" THEN "Validate" ELSE "Done"
            /\ iexit' = IF ientry = "install_cmd" THEN iexit ELSE "returned"
            /\ UNCHANGED <<itmp, temps>>
  /\ UNCHANGED <<ientry, iorig, isource, iname, icalls, idepth, ipath, isrcdir,
                 itarget, ustore, manifest, iraise, iout, istart, izip>>

\* An exception propagates: out of the with block (registry.py 202, 288), into
\* the bare except of install_module (lines 357-358), or into the except of
\* install_cmd (cli.py lines 170-172).
Propagate ==
  /\ ipc = "Raise"
  /\ IF itmp # None
       THEN /\ temps' = TemporaryDirectoryExit(temps, itmp, iraise)
            /\ itmp' = None
            /\ UNCHANGED <<ipc, ifallbacks, iexit, iraise, iname, ipath, icalls, iout>>
       ELSE IF ifallbacks # <<>>
         THEN LET f == ifallbacks[Len(ifallbacks)]
              IN /\ ifallbacks' = SubSeq(ifallbacks, 1, Len(ifallbacks) - 1)
                 /\ iraise' = "none"
                 /\ ipath' = f.source
                 /\ iname' = f.name
                 /\ icalls' = Append(icalls, "install_from_local")
                 /\ ipc' = "CheckSource"
                 /\ UNCHANGED <<itmp, temps, iexit, iout>>
         ELSE /\ ipc' = "Done"
              /\ iexit' = IF ientry = "install_cmd" THEN "exit 1" ELSE "raised"
              /\ iout' = IF ientry = "install_cmd" THEN iout \cup {[what |-> "Install failed", detail |-> {iraise}]}
                         ELSE iout
              /\ UNCHANGED <<itmp, temps, ifallbacks, iraise, iname, ipath, icalls>>
  /\ UNCHANGED <<ientry, iorig, isource, idepth, isrcdir, itarget, ustore,
                 manifest, istart, izip>>

\* install_cmd, cli.py lines 153-172: the installed module is validated; when
\* it is not valid the errors are printed, the module is uninstalled and the
\* Exit raised in the try block is caught by its own except clause
Validate ==
  /\ ipc = "Validate"
  /\ LET v == validate_module(ustore, itarget)
     IN IF v.is_valid
          THEN /\ iout' = iout \cup {[what |-> "Installed", detail |-> {}]}
               /\ iexit' = "exit 0"
               /\ UNCHANGED <<ustore, iraise>>
          ELSE /\ iout' = iout \cup {[what |-> "Installed module failed validation",
                                      detail |-> v.errors],
                                     [what |-> "Install failed", detail |-> {"Exit"}]}
               /\ ustore' = uninstall_module(ustore, Basename(itarget))
               /\ iraise' = "Exit"
               /\ iexit' = "exit 1"
  /\ ipc' = "Done"
  /\ UNCHANGED <<ientry, iorig, isource, iname, icalls, ifallbacks, idepth, itmp,
                 temps, ipath, isrcdir, itarget, manifest, istart, izip>>

InitInstall ==
  /\ ientry \in {"install_cmd", "install_from_github_url"}
  /\ iorig \in InstallCalls(ientry)
  /\ istart \in InitialWorlds
  /\ isource = iorig.source
  /\ iname = iorig.name
  /\ ipc = IF ientry = "install_cmd" THEN "Dispatch" ELSE "Download"
  /\ icalls = <<>>
  /\ ifallbacks = <<>>
  /\ idepth = 0
  /\ itmp = None
  /\ temps = {}
  /\ ipath = <<>>
  /\ isrcdir = Absent
  /\ itarget = None
  /\ ustore = istart.store
  /\ manifest = istart.manifest
  /\ iraise = "none"
  /\ iexit = "none"
  /\ iout = {}
  /\ izip = None
  /\ ResolverIdle
  /\ ParseIdle
  /\ PipeIdle
  /\ RestIdle

NextInstall ==
  \/ Dispatch /\ UNCHANGED <<resolverVars, parseVars, pipeVars, restVars>>
  \/ \E index \in Indexes : Registry(index) /\ UNCHANGED <<resolverVars, parseVars, pipeVars, restVars>>
  \/ \E cloned \in BOOLEAN : Clone(cloned) /\ UNCHANGED <<resolverVars, parseVars, pipeVars, restVars>>
  \/ \E dir \in SourceDirs : CheckSubdir(dir) /\ UNCHANGED <<resolverVars, parseVars, pipeVars, restVars>>
  \/ \E downloaded \in BOOLEAN :
       Download(downloaded) /\ UNCHANGED <<resolverVars, parseVars, pipeVars, restVars>>
  \/ \E extracted \in BOOLEAN :
       Extract(extracted) /\ UNCHANGED <<resolverVars, parseVars, pipeVars, restVars>>
  \/ \E tree \in [1..3 -> SourceDirs \ {Dir(RequiredFiles)}], root \in SourceDirs :
       Locate(tree, root) /\ UNCHANGED <<resolverVars, parseVars, pipeVars, restVars>>
  \/ \E dir \in SourceDirs : CheckSource(dir) /\ UNCHANGED <<resolverVars, parseVars, pipeVars, restVars>>
  \/ \E files \in SUBSET (RequiredFiles \cup ExampleFiles \cup {"notes.txt"}) :
       Copy(files) /\ UNCHANGED <<resolverVars, parseVars, pipeVars, restVars>>
  \/ \E written \in BOOLEAN : Record(written) /\ UNCHANGED <<resolverVars, parseVars, pipeVars, restVars>>
  \/ Return_ /\ UNCHANGED <<resolverVars, parseVars, pipeVars, restVars>>
  \/ Propagate /\ UNCHANGED <<resolverVars, parseVars, pipeVars, restVars>>
  \/ Validate /\ UNCHANGED <<resolverVars, parseVars, pipeVars, restVars>>

SpecInstall == InitInstall /\ [][NextInstall]_vars

(***************************************************************************)
(* Registry client: registry.py fetch_registry (370-395) and               *)
(* search_registry (398-413).  The cache file is a sequence of tokens, so  *)
(* that a file cut short by a writer that has not finished does not        *)
(* decode.  One action per step of a call; a process is in one call at a   *)
(* time.                                                                   *)
(***************************************************************************)
\* str.lower()
lower(s) ==
  [i \in 1..Len(s) |-> IF s[i] = "A" THEN "a" ELSE IF s[i] = "B" THEN "b"
                       ELSE IF s[i] = "C" THEN "c" ELSE s[i]]

\* What the index URL answers: an index document, or the failure of urlopen,
\* of reading and decoding the body, or of json.loads.  An index lists its
\* modules in document order; an entry may lack any of its fields.
Responses ==
  LET E1 == [name |-> <<"A", "b">>,
             info |-> [description |-> <<"x", "c">>, source |-> <<"l", "o", "c", "a", "l", ":", "/", "s", "/", "m">>,
                       version |-> <<"1">>]]
      E2 == [name |-> <<"c">>, info |-> [source |-> <<"g", "i", "t", "h", "u", "b", ":", "o", "/", "r", "/", "m">>]]
      E3 == [name |-> <<"d">>, info |-> [description |-> <<"a", "B">>]]
  IN { [kind |-> "ok", doc |-> d] :
         d \in { [modules |-> <<E1, E2, E3>>], [modules |-> <<E3, E1>>],
                 [updated |-> <<"1">>] } }
     \cup { [kind |-> k, doc |-> <<>>] :
              k \in {"URLError", "JSONDecodeError", "TimeoutError", "UnicodeDecodeError"} }

\* json.dump(data, f): the text written, token by token
json_dump(data) ==
  <<[t |-> "{"]>>
  \o (IF "modules" \in DOMAIN data
        THEN [i \in 1..Len(data.modules) |-> [t |-> "entry", v |-> data.modules[i]]]
        ELSE <<[t |-> "members", v |-> data]>>)
  \o <<[t |-> "}"]>>

\* json.load(f): a text decodes when it is an opening brace, members and the
\* closing brace
json_load(text) ==
  IF /\ Len(text) >= 2
     /\ text[1].t = "{"
     /\ text[Len(text)].t = "}"
     /\ \A i \in 2..(Len(text) - 1) : text[i].t = "entry"
    THEN [ok |-> TRUE, doc |-> [modules |-> [i \in 1..(Len(text) - 2) |-> text[i + 1].v]]]
  ELSE IF Len(text) = 3 /\ text[1].t = "{" /\ text[2].t = "members" /\ text[3].t = "}"
    THEN [ok |-> TRUE, doc |-> text[2].v]
  ELSE [ok |-> FALSE, doc |-> <<>>]

\* search_registry, lines 401-413, over the registry fetch_registry returned
NamesOnly(registry, query) ==
  LET modules == IF "modules" \in DOMAIN registry THEN registry.modules ELSE <<>>
      In(q, str) == \E i \in 0..(Len(str) - Len(q)) : SubSeq(str, i + 1, i + Len(q)) = q
      Get(info, k) == IF k \in DOMAIN info THEN info[k] ELSE <<>>
      results[n \in 0..Len(modules)] ==
        IF n = 0 THEN <<>>
        ELSE IF In(lower(query), lower(modules[n].name))
          THEN Append(results[n - 1],
                      [name |-> modules[n].name,
                       description |-> Get(modules[n].info, "description"),
                       source |-> Get(modules[n].info, "source"),
                       version |-> Get(modules[n].info, "version")])
          ELSE results[n - 1]
  IN results[Len(modules)]
search_registry(registry, query) ==
  LET modules == IF "modules" \in DOMAIN registry THEN registry.modules ELSE <<>>
      In(q, str) == \E i \in 0..(Len(str) - Len(q)) : SubSeq(str, i + 1, i + Len(q)) = q
      Get(info, k) == IF k \in DOMAIN info THEN info[k] ELSE <<>>
      results[n \in 0..Len(modules)] ==
        IF n = 0 THEN <<>>
        ELSE IF \/ In(lower(query), lower(modules[n].name))
                \/ In(lower(query), lower(Get(modules[n].info, "description")))
          THEN Append(results[n - 1],
                      [name |-> modules[n].name,
                       description |-> Get(modules[n].info, "description"),
                       source |-> Get(modules[n].info, "source"),
                       version |-> Get(modules[n].info, "version")])
          ELSE results[n - 1]
  IN results[Len(modules)]

\* A process that is in no call.
NoCall ==
  [op |-> "none", url |-> <<>>, use_cache |-> TRUE, query |-> <<>>, pc |-> "Idle",
   seen |-> <<>>, called |-> <<>>, resp |-> "none", data |-> <<>>, off |-> 0,
   registry |-> <<>>, result |-> [kind |-> "none"]]

\* fetch_registry returns registry to the call pr is in: to the caller of
\* fetch_registry (line 378, 392, 395), or to search_registry, which returns
\* its results (lines 400-413).
Returned(pr, registry) ==
  [pr EXCEPT !.pc = "Done", !.data = <<>>, !.off = 0, !.registry = registry,
             !.result = IF pr.op = "search"
                          THEN [kind |-> "results",
                                list |-> search_registry(registry, pr.query)]
                          ELSE [kind |-> "returned", doc |-> registry]]

\* fetch_registry(url, use_cache) is called (lines 370-372), or
\* search_registry(query), which calls fetch_registry() (lines 398-400)
Call(p, op, url, use_cache, query) ==
  /\ procs[p].pc \in {"Idle", "Done"}
  /\ op = "search" => (url = None /\ use_cache)
  /\ op = "fetch" => query = <<>>
  /\ procs' = [procs EXCEPT ![p] =
                 [NoCall EXCEPT !.op = op, !.use_cache = use_cache, !.query = query,
                                !.url = IF url # None THEN url ELSE <<"d", "e", "f", "a", "u", "l", "t">>,
                                !.pc = "CheckCache"]]
  /\ UNCHANGED <<nprocs, cache>>

\* lines 374-380: the cache file is read when it is there and use_cache is
\* true; a file that does not decode is passed over
AlwaysNetwork(p) ==
  /\ procs[p].pc = "CheckCache"
  /\ procs' = [procs EXCEPT ![p].pc = "Network"]
  /\ UNCHANGED <<nprocs, cache>>
ReadCache(p) ==
  /\ procs[p].pc = "CheckCache"
  /\ IF procs[p].use_cache /\ cache.exists
       THEN LET r == json_load(cache.text)
                pr == [procs[p] EXCEPT !.seen = <<cache.text>>]
            IN procs' = [procs EXCEPT ![p] = IF r.ok THEN Returned(pr, r.doc)
                                             ELSE [pr EXCEPT !.pc = "Network"]]
       ELSE procs' = [procs EXCEPT ![p].pc = "Network"]
  /\ UNCHANGED <<nprocs, cache>>

\* lines 382-389, 393-395: the index is requested and decoded; on success the
\* cache file is opened for writing, which empties it; a URLError or a
\* JSONDecodeError gives the empty registry with the error message; any other
\* exception leaves the function
Fetch(p, answer) ==
  /\ procs[p].pc = "Network"
  /\ LET pr == [procs[p] EXCEPT !.called = <<procs[p].url>>, !.resp = answer.kind]
     IN IF answer.kind = "ok"
          THEN /\ procs' = [procs EXCEPT ![p] = [pr EXCEPT !.pc = "Dump", !.data = answer.doc]]
               /\ cache' = [exists |-> TRUE, text |-> <<>>]
          ELSE /\ procs' = [procs EXCEPT ![p] =
                             IF answer.kind \in {"URLError", "JSONDecodeError"}
                               THEN Returned(pr, [modules |-> <<>>, error |-> answer.kind])
                               ELSE [pr EXCEPT !.pc = "Done",
                                               !.result = [kind |-> "raised", exc |-> answer.kind]]]
               /\ UNCHANGED cache
  /\ UNCHANGED nprocs

\* lines 389-392: json.dump writes the text from the writer's own position,
\* up to token k in this step (the buffer is flushed after the second token,
\* or only when the file is closed); when all of it is written the file is
\* closed and the data returned
Dump(p, k) ==
  /\ procs[p].pc = "Dump"
  /\ LET full == json_dump(procs[p].data)
         off  == procs[p].off
         len  == IF k > Len(cache.text) THEN k ELSE Len(cache.text)
     IN /\ k \in {2, Len(full)}
        /\ k > off
        /\ cache' = [exists |-> TRUE,
                     text |-> [i \in 1..len |->
                                 IF i > off /\ i <= k THEN full[i]
                                 ELSE IF i <= Len(cache.text) THEN cache.text[i]
                                 ELSE [t |-> "NUL"]]]
        /\ procs' = [procs EXCEPT ![p] =
                       IF k = Len(full) THEN Returned(procs[p], procs[p].data)
                       ELSE [procs[p] EXCEPT !.off = k]]
  /\ UNCHANGED nprocs

\* The cache file is removed by hand (no code of the client removes it); not
\* while a writer holds it open.
ClearCache ==
  /\ cache.exists
  /\ \A p \in DOMAIN procs : procs[p].pc # "Dump"
  /\ cache' = [exists |-> FALSE, text |-> <<>>]
  /\ UNCHANGED <<nprocs, procs>>

\* One process, or two whose calls overlap: process 1 makes any call, process 2
\* refreshes the cache (fetch_registry with use_cache false).  The cache file
\* is absent, was left empty, or holds an index fetched earlier.
InitRegistry ==
  /\ nprocs \in {1, 2}
  /\ cache \in { [exists |-> FALSE, text |-> <<>>] }
         \cup { [exists |-> TRUE, text |-> <<>>] : n \in {nprocs} \ {2} }
         \cup { [exists |-> TRUE, text |-> json_dump(r.doc)] :
                  r \in { x \in Responses : x.kind = "ok" /\ "modules" \in DOMAIN x.doc } }
  /\ procs = [p \in 1..nprocs |-> NoCall]
  /\ ResolverIdle
  /\ ParseIdle
  /\ PipeIdle
  /\ InstallIdle
  /\ ValidatorIdle
  /\ RaceIdle

NextRegistry ==
  \/ \E p \in DOMAIN procs, url \in {None, <<"u">>}, use_cache \in BOOLEAN :
       /\ p = 1 \/ (url = None /\ ~use_cache)
       /\ Call(p, "fetch", url, use_cache, <<>>)
       /\ UNCHANGED <<resolverVars, parseVars, pipeVars, installVars, validatorVars, raceVars>>
  \/ \E p \in {1}, query \in { <<>>, <<"a", "B">>, <<"C">>, <<"z">> } :
       /\ Call(p, "search", None, TRUE, query)
       /\ UNCHANGED <<resolverVars, parseVars, pipeVars, installVars, validatorVars, raceVars>>
  \/ \E p \in DOMAIN procs :
       /\ ReadCache(p)
       /\ UNCHANGED <<resolverVars, parseVars, pipeVars, installVars, validatorVars, raceVars>>
  \/ \E p \in DOMAIN procs, answer \in Responses :
       /\ Fetch(p, answer)
       /\ UNCHANGED <<resolverVars, parseVars, pipeVars, installVars, validatorVars, raceVars>>
  \/ \E p \in DOMAIN procs, k \in 1..5 :
       /\ Dump(p, k)
       /\ UNCHANGED <<resolverVars, parseVars, pipeVars, installVars, validatorVars, raceVars>>
  \/ ClearCache /\ UNCHANGED <<resolverVars, parseVars, pipeVars, installVars, validatorVars, raceVars>>

SpecRegistry == InitRegistry /\ [][NextRegistry]_vars

(***************************************************************************)
(* Module validator: runtime/validate_module.py validate_module (25-231),  *)
(* applied to one module directory.  A file is "missing", "empty" or "ok"; *)
(* a JSON document is named by what matters of it: whether it decodes, and *)
(* whether it satisfies a schema that constrains anything.                 *)
(***************************************************************************)
\* jsonschema.validate(instance, schema): the schema {} accepts every instance
Validates(doc, schema) == schema = "{}" \/ doc = "conforming"

\* lines 145-166: the errors and warnings of constraints.yaml; a document that
\* loads as None makes the membership test raise
StrictOperational(c) ==
  LET required == {"no_external_network", "no_side_effects", "no_inventing_data"}
      lacking  == IF c.kind # "mapping" THEN {}
                  ELSE IF ~c.section THEN {<<"Missing 'operational' section in constraints", "">>}
                  ELSE { <<"Missing operational constraint", k>> : k \in required \ DOMAIN c.operational }
                       \cup { <<"Constraint is set to false", k>> :
                                k \in { x \in required \cap DOMAIN c.operational : ~c.operational[x] } }
  IN [raised   |-> c.kind = "null",
      errors   |-> IF c.kind = "invalid yaml"
                     THEN {<<"Invalid YAML in constraints.yaml", "">>} ELSE lacking,
      warnings |-> {}]
check_constraints(c) ==
  LET required == {"no_external_network", "no_side_effects", "no_inventing_data"}
  IN [raised   |-> c.kind = "null",
      errors   |-> IF c.kind = "invalid yaml"
                     THEN {<<"Invalid YAML in constraints.yaml", "">>} ELSE {},
      warnings |-> IF c.kind # "mapping" THEN {}
                   ELSE IF ~c.section THEN {<<"Missing 'operational' section in constraints", "">>}
                   ELSE { <<"Missing operational constraint", k>> : k \in required \ DOMAIN c.operational }
                        \cup { <<"Constraint is set to false", k>> :
                                 k \in { x \in required \cap DOMAIN c.operational : ~c.operational[x] } }]

\* validate_module, lines 32-231: returned (is_valid, errors), or the
\* exception that left the function; warnings are what it printed as such.
validate_module_runtime(m) ==
  LET Out(errors, warnings) ==
        [kind |-> "returned", is_valid |-> errors = {}, errors |-> errors,
         warnings |-> warnings]
      Raise(e) == [kind |-> "raised", is_valid |-> FALSE, errors |-> {<<e, "">>},
                   warnings |-> {}]
      \* lines 44-78
      missing ==
        { <<"Missing required file", f>> : f \in { x \in RequiredFiles : m.files[x] = "missing" } }
        \cup { <<"File is empty", f>> : f \in { x \in RequiredFiles : m.files[x] = "empty" } }
        \cup (IF ~m.examples.dir THEN {<<"Missing examples directory", "">>}
              ELSE { <<"Missing", f>> : f \in { x \in {"input", "output"} : m.examples[x] = "missing" } })
      \* lines 83-112
      fm == m.frontmatter
      fm_errors ==
        IF fm.kind = "none" THEN {<<"module.md must start with YAML frontmatter (---)", "">>}
        ELSE IF fm.kind = "unclosed" THEN {<<"module.md frontmatter not properly closed", "">>}
        ELSE IF fm.kind = "invalid yaml" THEN {<<"Invalid YAML in module.md", "">>}
        ELSE { <<"module.md missing required field", f>> :
                 f \in {"name", "version", "responsibility", "excludes"} \ fm.fields }
             \cup (IF "excludes" \in fm.fields /\ fm.excludes = "scalar"
                     THEN {<<"'excludes' must be a list", "">>} ELSE {})
      fm_warnings ==
        IF fm.kind = "mapping" /\ "excludes" \in fm.fields /\ fm.excludes = "empty list"
          THEN {<<"'excludes' list is empty", "">>} ELSE {}
      \* lines 114-143
      schema_errors ==
        { <<"Invalid JSON in", f>> :
            f \in { x \in {"input_schema", "output_schema"} : m[x] = "not json" } }
      schema_warnings ==
        { <<"should have additionalProperties: false", f>> :
            f \in { x \in {"input_schema"} : m[x] = "{}" } }
      \* lines 145-176
      c == check_constraints(m.constraints)
      prompt_warnings ==
        IF m.prompt_short THEN {<<"prompt.txt seems too short (< 100 chars)", "">>} ELSE {}
      \* lines 178-214: a schema that failed to load, or that is empty, is
      \* falsy and its example is not looked at
      Example(x, schema) ==
        IF schema \in {"not json", "{}"} THEN {}
        ELSE IF m.examples[x] = "not json" THEN {<<"Invalid JSON in examples", x>>}
        ELSE IF ~Validates(m.examples[x], schema) THEN {<<"Example fails schema validation", x>>}
        ELSE IF x = "output" /\ m.confidence = "out of range"
          THEN {<<"Confidence must be between 0 and 1", "">>}
        ELSE {}
  IN IF ~m.exists THEN Out({<<"Module directory not found", "">>}, {})
     ELSE IF missing # {} THEN Out(missing, {})
     ELSE IF fm.kind = "null" \/ c.raised THEN Raise("TypeError")
     ELSE Out(fm_errors \cup schema_errors \cup c.errors
                \cup Example("input", m.input_schema)
                \cup Example("output", m.output_schema),
              fm_warnings \cup schema_warnings \cup c.warnings \cup prompt_warnings)

\* The module directories validate_module is applied to: a module with
\* nothing wrong, varied in its files, examples and frontmatter; in its
\* schemas and example documents; and in its constraints.
ValidatorModules ==
  LET Good ==
        [exists |-> TRUE,
         files |-> [f \in RequiredFiles |-> "ok"],
         examples |-> [dir |-> TRUE, input |-> "conforming", output |-> "conforming"],
         confidence |-> "in range",
         frontmatter |-> [kind |-> "mapping",
                          fields |-> {"name", "version", "responsibility", "excludes"},
                          excludes |-> "list"],
         input_schema |-> "schema",
         output_schema |-> "schema",
         constraints |-> [kind |-> "mapping", section |-> TRUE,
                          operational |-> [k \in {"no_external_network", "no_side_effects",
                                                  "no_inventing_data"} |-> TRUE]],
         prompt_short |-> FALSE]
      Files == { Good.files }
               \cup { [Good.files EXCEPT ![f] = st] : f \in RequiredFiles, st \in {"missing", "empty"} }
      Frontmatters ==
        { [kind |-> k, fields |-> {}, excludes |-> "list"] :
            k \in {"none", "unclosed", "invalid yaml", "null"} }
        \cup { [kind |-> "mapping", fields |-> Good.frontmatter.fields \ d, excludes |-> x] :
                 d \in { {}, {"name"}, {"version"}, {"responsibility"}, {"excludes"} },
                 x \in {"list", "empty list", "scalar"} }
      Docs == {"not json", "violating", "conforming"}
      Constraints ==
        { [kind |-> k, section |-> FALSE, operational |-> <<>>] :
            k \in {"invalid yaml", "null", "mapping"} }
        \cup { [kind |-> "mapping", section |-> TRUE, operational |-> o] :
                 o \in UNION { [d -> BOOLEAN] : d \in SUBSET DOMAIN Good.constraints.operational } }
  IN { [Good EXCEPT !.exists = e, !.files = fl, !.frontmatter = fm,
                    !.examples = [dir |-> ex # {}, input |-> IF "i" \in ex THEN "conforming" ELSE "missing",
                                  output |-> IF "o" \in ex THEN "conforming" ELSE "missing"]] :
         e \in BOOLEAN, fl \in Files, fm \in Frontmatters,
         ex \in { {}, {"d"}, {"d", "i"}, {"d", "o"}, {"d", "i", "o"} } }
     \cup { [Good EXCEPT !.input_schema = si, !.output_schema = so, !.confidence = cf,
                         !.examples = [dir |-> TRUE, input |-> di, output |-> do]] :
              si \in {"not json", "{}", "schema"}, so \in {"not json", "{}", "schema"},
              di \in Docs, do \in Docs, cf \in {"absent", "in range", "out of range"} }
     \cup { [Good EXCEPT !.constraints = c, !.prompt_short = ps, !.input_schema = si,
                         !.frontmatter.excludes = x] :
              c \in Constraints, ps \in BOOLEAN, si \in {"not json", "{}", "schema"},
              x \in {"list", "empty list", "scalar"} }

\* validate_module(module_name) is called on the module directory
RunValidator ==
  /\ vout = <<>>
  /\ vout' = validate_module_runtime(vmod)
  /\ UNCHANGED vmod

InitValidator ==
  /\ vmod \in ValidatorModules
  /\ vout = <<>>
  /\ ResolverIdle
  /\ ParseIdle
  /\ PipeIdle
  /\ InstallIdle
  /\ RegistryIdle
  /\ RaceIdle

NextValidator ==
  RunValidator /\ UNCHANGED <<resolverVars, parseVars, pipeVars, installVars, registryVars, raceVars>>

SpecValidator == InitValidator /\ [][NextValidator]_vars

(***************************************************************************)
(* Two install_from_local calls (registry.py 111-132) that run at the same *)
(* time on the shared store and manifest, each past its checks of the      *)
(* source (113-119).  One action per step that touches the disk.           *)
(***************************************************************************)
\* lines 124-125: the target is removed when it is there.  The test and the
\* removal are taken as one step, and the removal as a whole.
RemoveTarget(p) ==
  /\ racers[p].pc = "RemoveTarget"
  /\ rstore' = [rstore EXCEPT ![racers[p].name] = Absent]
  /\ racers' = [racers EXCEPT ![p].pc = "Makedirs"]
  /\ UNCHANGED rmanifest

\* line 127, shutil.copytree(source, target): the target directory is made,
\* which fails when it is there; then the files are copied one by one, in any
\* order; a copy that fails is noted and the others go on, and the notes are
\* raised at the end.  f is the file copied in this step.
CopyTree(p, f) ==
  LET r == racers[p]
      there == rstore[r.name] # Absent
  IN IF r.pc = "Makedirs"
       THEN /\ f = "."
            /\ rstore' = IF there THEN rstore ELSE [rstore EXCEPT ![r.name] = Dir({})]
            /\ racers' = [racers EXCEPT ![p] =
                            IF there THEN [r EXCEPT !.pc = "Done", !.result = "FileExistsError"]
                            ELSE [r EXCEPT !.pc = "CopyFile"]]
            /\ UNCHANGED rmanifest
       ELSE /\ r.pc = "CopyFile"
            /\ f \in r.source \ r.copied
            /\ rstore' = IF ~there THEN rstore
                         ELSE [rstore EXCEPT ![r.name] =
                                 Dir({ x \in rstore[r.name].files : x[1] # f } \cup {<<f, p>>})]
            /\ LET failed == r.failed \/ ~there
                   copied == r.copied \cup {f}
               IN racers' = [racers EXCEPT ![p] =
                               IF copied # r.source
                                 THEN [r EXCEPT !.copied = copied, !.failed = failed]
                               ELSE IF failed
                                 THEN [r EXCEPT !.copied = copied, !.failed = failed,
                                                !.pc = "Done", !.result = "shutil.Error"]
                               ELSE [r EXCEPT !.copied = copied, !.pc = "ReadManifest"]]
            /\ UNCHANGED rmanifest

\* lines 130-132, _record_module_source (135-158): the manifest is loaded (an
\* absent file, or one that does not decode, gives the empty manifest), the
\* entry of the name is set, the file is opened for writing, which empties it,
\* and the manifest is written; then the target path is returned.
RecordSource(p) ==
  LET r == racers[p]
  IN /\ CASE r.pc = "ReadManifest" ->
               /\ racers' = [racers EXCEPT ![p] =
                               [r EXCEPT !.pc = "OpenManifest",
                                         !.manifest =
                                           (r.name :> p)
                                           @@ (IF rmanifest.exists /\ rmanifest.ok
                                                 THEN rmanifest.entries ELSE <<>>)]]
               /\ UNCHANGED rmanifest
          [] r.pc = "OpenManifest" ->
               /\ rmanifest' = [exists |-> TRUE, ok |-> FALSE, entries |-> <<>>]
               /\ racers' = [racers EXCEPT ![p].pc = "DumpManifest"]
          [] r.pc = "DumpManifest" ->
               /\ rmanifest' = [exists |-> TRUE, ok |-> TRUE, entries |-> r.manifest]
               /\ racers' = [racers EXCEPT ![p] = [r EXCEPT !.pc = "Done", !.result = "returned"]]
          [] OTHER -> FALSE
     /\ UNCHANGED rstore

\* Two calls, for the same target name or for two names; each source is a
\* valid module with a file the other lacks; a target may be installed
\* already, with its manifest entry.
InitRace ==
  /\ \E names \in [1..2 -> {"m", "y"}] :
       racers = [p \in 1..2 |->
                   [pc |-> "RemoveTarget", name |-> names[p],
                    source |-> IF p = 1 THEN {"module.md", "prompt.txt"}
                               ELSE {"module.md", "notes.txt"},
                    copied |-> {}, failed |-> FALSE, manifest |-> <<>>,
                    result |-> "none"]]
  /\ \E installed \in SUBSET {"m", "y"} :
       /\ rstore = [n \in {"m", "y"} |->
                      IF n \in installed THEN Dir({<<"module.md", 0>>, <<"old.txt", 0>>})
                      ELSE Absent]
       /\ rmanifest = [exists |-> installed # {}, ok |-> installed # {},
                       entries |-> [n \in installed |-> 0]]
  /\ ResolverIdle
  /\ ParseIdle
  /\ PipeIdle
  /\ InstallIdle
  /\ RegistryIdle
  /\ ValidatorIdle

NextRace ==
  \/ \E p \in 1..2 :
       /\ RemoveTarget(p)
       /\ UNCHANGED <<resolverVars, parseVars, pipeVars, installVars, registryVars, validatorVars>>
  \/ \E p \in 1..2, f \in {".", "module.md", "prompt.txt", "notes.txt"} :
       /\ CopyTree(p, f)
       /\ UNCHANGED <<resolverVars, parseVars, pipeVars, installVars, registryVars, validatorVars>>
  \/ \E p \in 1..2 :
       /\ RecordSource(p)
       /\ UNCHANGED <<resolverVars, parseVars, pipeVars, installVars, registryVars, validatorVars>>

SpecRace == InitRace /\ [][NextRace]_vars

(***************************************************************************)
(* Resolver claims                                                         *)
(***************************************************************************)
\* A location qualifies for a name when <base>/<name> is a directory holding at
\* least one of the three descriptor files.
Qualifies(b, n) ==
  /\ fs[b][n].kind = "dir"
  /\ fs[b][n].files \cap DescriptorFiles # {}

\* The positions of the search-path list in use whose location qualifies for n.
QualifyingAt(n) ==
  LET paths == get_search_paths(custom)
  IN { i \in 1..Len(paths) : Qualifies(paths[i], n) }

\* C8 (as claimed): search_paths returns the injected paths first, in the order
\* given in the colon-separated setting, followed by project-local, user-global
\* and system-wide: for 'a:b' the result is [a, b, local, user, system].
C8_InjectedInGivenOrder ==
  rop = <<"search_paths">> => rpaths = custom \o <<"local", "user", "system">>

\* C9: find(name) returns <base>/<name> for the first base of the search-path
\* list (the list get_search_paths returns) whose <name> directory exists and
\* holds a descriptor file; locations that do not qualify are skipped, and None
\* is returned only when no location qualifies.
C9_FindFirstQualifying ==
  rop[1] = "find" =>
    LET n == rop[2]
        paths == get_search_paths(custom)
        Q == QualifyingAt(n)
    IN IF Q = {} THEN rfound = None
       ELSE \E i \in Q : (\A j \in Q : i <= j) /\ rfound = <<paths[i], n>>

\* C9 witness: find returned a module after skipping an earlier location whose
\* <name> directory exists but holds no descriptor file.
C9_Witness ==
  /\ rop[1] = "find"
  /\ rfound # None
  /\ LET paths == get_search_paths(custom)
     IN \E i, j \in 1..Len(paths) :
          /\ j < i
          /\ rfound = <<paths[i], rop[2]>>
          /\ fs[paths[j]][rop[2]] = Dir({})

\* C10: list_all never reports a name twice: it holds exactly one entry per
\* distinct valid module name, the one from the earliest location of the
\* search-path list in use that holds a valid module of that name.
C10_ListOncePerName ==
  rop = <<"list">> =>
    LET paths == get_search_paths(custom)
    IN /\ \A i, j \in 1..Len(rlist) : rlist[i].name = rlist[j].name => i = j
       /\ { rlist[i].name : i \in 1..Len(rlist) }
            = { n \in ModuleNames : QualifyingAt(n) # {} }
       /\ \A i \in 1..Len(rlist) :
            \E k \in QualifyingAt(rlist[i].name) :
              /\ \A l \in QualifyingAt(rlist[i].name) : k <= l
              /\ rlist[i].path = <<paths[k], rlist[i].name>>

\* C10 witness: a listed name is a valid module in two different locations.
C10_Witness ==
  /\ rop = <<"list">>
  /\ \E i \in 1..Len(rlist) :
       \E b \in Bases : b # rlist[i].path[1] /\ Qualifies(b, rlist[i].name)

(***************************************************************************)
(* Parser claims                                                           *)
(***************************************************************************)
\* T is a JSON document text: an object opened and closed by braces around
\* member lines, blank lines allowed anywhere.
IsJsonDocument(text) ==
  LET idx == { i \in 1..Len(text) : text[i] # BLANK }
  IN /\ Cardinality(idx) >= 2
     /\ \A i \in idx :
          IF \A j \in idx : i <= j THEN text[i] = "{"
          ELSE IF \A j \in idx : j <= i THEN text[i] = "}"
          ELSE text[i] = "\"confidence\": 0.5"

\* C5: for every JSON document text T, ParseResponse of T wrapped in a fenced
\* block yields the same parsed document as ParseResponse of T, and parsing
\* unwrapped valid JSON succeeds with the document of T (here: an object whose
\* confidence member is present exactly when T holds a member line).
C5_FenceRoundTrip ==
  (ppc = "parsed" /\ IsJsonDocument(ptext)) =>
    /\ pplain.runner.ok /\ pplain.runtime.ok
    /\ pwrapped.runner = pplain.runner
    /\ pwrapped.runtime = pplain.runtime
    /\ DOMAIN pplain.runner.doc
         = IF \E i \in 1..Len(ptext) : ptext[i] = "\"confidence\": 0.5"
             THEN {"confidence"} ELSE {}

\* C5 witness: a JSON document with a member, parsed both ways.
C5_Witness ==
  /\ ppc = "parsed"
  /\ IsJsonDocument(ptext)
  /\ pwrapped.runner.ok
  /\ pwrapped.runtime.ok
  /\ "confidence" \in DOMAIN pwrapped.runner.doc

(***************************************************************************)
(* Pipeline claims                                                         *)
(***************************************************************************)
\* A document conforms to a schema: the schema is well formed, every required
\* property is present and every property the schema types as a number is one.
Conforms(doc, schema) ==
  /\ schema.wellFormed
  /\ \A k \in schema.required : k \in DOMAIN doc
  /\ \A k \in DOMAIN doc : k \in schema.numeric => doc[k].t = "number"

Ran(stage) == \E i \in 1..Len(trace) : trace[i] = stage

Loaded == "input_schema" \in DOMAIN module

\* C1: with input validation enabled, the provider is never called when the
\* input document violates the module's input_schema: the run ends in an error
\* at ValidateInput with zero Invoke calls and no result.
C1_NoInvokeOnInvalidInput ==
  (args.validate_input /\ Loaded /\ ~Conforms(args.input, module.input_schema)) =>
    /\ invokes = 0
    /\ ~Ran("Invoke")
    /\ result = None
    /\ Ran("ValidateInput") => (pc = "Failed" /\ err = Failure("ValueError", "ValidateInput"))

\* C1 witness: a run stopped at ValidateInput by a missing required property.
C1_Witness ==
  /\ pc = "Failed"
  /\ err = Failure("ValueError", "ValidateInput")
  /\ module.input_schema.wellFormed
  /\ "task" \notin DOMAIN args.input
  /\ invokes = 0

StageOrder ==
  << "Resolve", "Load", "ValidateInput", "BuildPrompt", "Invoke", "ParseResponse",
     "ValidateOutput", "CheckConfidence", "Done" >>

StageIndex(stage) == CHOOSE i \in 1..Len(StageOrder) : StageOrder[i] = stage

\* The stages that have run appear in the fixed order, none twice, and none ran
\* before an earlier stage that cannot be skipped (the two validations are
\* skipped by flag; run_module of runner.py has no confidence check).
InFixedOrder(t, a, which) ==
  /\ \A i, j \in 1..Len(t) : i < j => StageIndex(t[i]) < StageIndex(t[j])
  /\ \A i \in 1..Len(t) :
       \A k \in 1..(StageIndex(t[i]) - 1) :
         \/ \E j \in 1..Len(t) : t[j] = StageOrder[k]
         \/ StageOrder[k] = "ValidateInput" /\ ~a.validate_input
         \/ StageOrder[k] = "ValidateOutput" /\ ~a.validate_output
         \/ StageOrder[k] = "CheckConfidence" /\ which = "runner"

C3_OnlyValidOutputReturned ==
  args.validate_output =>
    /\ result # None => Conforms(result.doc, module.output_schema)
    /\ (Ran("ValidateOutput") /\ ~Conforms(output.doc, module.output_schema)) =>
         (pc = "Failed" /\ result = None /\ err = Failure("ValueError", "ValidateOutput"))

\* C3 witness: a parsed output rejected by a well-formed output schema.
C3_Witness ==
  /\ args.validate_output
  /\ err = Failure("ValueError", "ValidateOutput")
  /\ output.ok
  /\ module.output_schema.wellFormed
  /\ result = None

\* The threshold the claim compares with: minimum_viable, 0.6 when unspecified.
ClaimedThreshold(constraints) ==
  IF constraints.thresholds = "mapping" /\ constraints.hasMinimum
    THEN constraints.minimum_viable
    ELSE 60

\* C4 (as claimed): for an output that carries a confidence field (parsed, and
\* accepted by output validation when that is enabled) the run always returns
\* the result, and the result is flagged low-confidence exactly when confidence
\* is below minimum_viable (0.6 when unspecified).
C4_ConfidenceAdvisory ==
  ( /\ pc \in {"Done", "Failed"}
    /\ output # None
    /\ output.ok
    /\ "confidence" \in DOMAIN output.doc
    /\ (err = None \/ err.stage = "CheckConfidence") ) =>
      /\ pc = "Done"
      /\ result = [doc |-> output.doc]
      /\ Printed("low_confidence", 0) \in diag
           <=> ( /\ output.doc["confidence"].t = "number"
                 /\ output.doc["confidence"].n < ClaimedThreshold(module.constraints) )

\* C6 (as claimed): when the response is not valid JSON after fence-stripping,
\* the run ends in an error that comes with a preview of the raw response of
\* bounded length.
C6_DecodeFailureHasPreview ==
  (err # None /\ err.stage = "ParseResponse") =>
    /\ pc = "Failed"
    /\ result = None
    /\ \E d \in diag : d.what = "preview" /\ d.chars <= 200

\* C7: the provider is invoked at most once per run: a provider error at Invoke
\* ends the run, with no response, no result and no second call.
C7_InvokedAtMostOnce ==
  /\ invokes <= 1
  /\ (err # None /\ err.stage = "Invoke") =>
       (pc = "Failed" /\ invokes = 1 /\ response = None /\ result = None)

\* C7 witness: a run ended by a network failure of the provider.
C7_Witness ==
  /\ pc = "Failed"
  /\ err = Failure("ConnectionError", "Invoke")
  /\ invokes = 1

(***************************************************************************)
(* Descriptor loader claims                                                *)
(***************************************************************************)
\* C11: load of a module directory succeeds whichever of the three descriptor
\* files (module.yaml, MODULE.md, module.md) it holds, the other files being
\* the same: once Load has run on a directory that holds a descriptor file, a
\* well-formed frontmatter and the schema, constraints and prompt files, a
\* Descriptor has been loaded.
C11_LoadAnyFormat ==
  ( /\ Ran("Load")
    /\ \E f \in DescriptorFiles : HasFile(fs, module.path, f)
    /\ \A f \in OtherFiles : HasFile(fs, module.path, f)
    /\ moddir.frontmatter = "ok" )
  => Loaded

\* C12: load of a module.md whose content does not begin with the frontmatter
\* delimiter, or whose frontmatter is not closed, ends in a parse error; it
\* never returns a Descriptor.
C12_MalformedFrontmatterRejected ==
  ( /\ Ran("Load")
    /\ HasFile(fs, module.path, "module.md")
    /\ moddir.frontmatter \in {"absent", "unclosed"} )
  => ( /\ pc = "Failed"
       /\ err.stage = "Load"
       /\ ~Loaded )

(***************************************************************************)
(* Installer claims                                                        *)
(***************************************************************************)
Installed(n) == n \in DOMAIN ustore

CommandEnded == ientry = "install_cmd" /\ ipc = "Done"

ValidationFailed ==
  \E o \in iout : o.what = "Installed module failed validation"

Succeeded == ipc = "Done" /\ iexit \in {"exit 0", "returned"}

\* C13: when the install command installed a module that then failed the
\* post-install validation, no directory of that name is in the user-global
\* store once the command has ended, the command has ended in failure and the
\* validation errors have been printed.
C13_RollbackAfterFailedValidation ==
  (CommandEnded /\ ValidationFailed)
  => ( /\ ~Installed(itarget)
       /\ iexit = "exit 1"
       /\ \E o \in iout : /\ o.what = "Installed module failed validation"
                          /\ o.detail # {} )

C13_Witness ==
  /\ CommandEnded
  /\ ValidationFailed
  /\ itarget = <<"m">>
  /\ isrcdir = Dir(RequiredFiles)

\* C14: after an install command that ended in failure the user-global store
\* is what it was when the command started.
C14_FailedInstallLeavesStore ==
  (CommandEnded /\ iexit = "exit 1") => ustore = istart.store

\* C15: when the copy failed part-way or the manifest could not be written
\* after the copy, the target directory is gone once the error has reached
\* the caller.
C15_PartialInstallRemoved ==
  (ipc = "Done" /\ iraise \in {"shutil.Error", "OSError"}) => ~Installed(iname)

\* C16: after a successful install the target directory holds exactly the
\* files of the source directory, whatever was installed under that name
\* before.
C16_InstallReplacesInFull ==
  Succeeded => (Installed(itarget) /\ ustore[itarget] = Dir(isrcdir.files))

C16_Witness ==
  /\ Succeeded
  /\ itarget \in DOMAIN istart.store
  /\ "notes.txt" \in istart.store[itarget].files
  /\ "notes.txt" \notin isrcdir.files

\* C17: the manifest entry written by an install records the source string
\* that was passed to install.
C17_ManifestRecordsOriginalSource ==
  (Succeeded /\ itarget \in DOMAIN manifest)
  => manifest[itarget].source = iorig.source

\* C18: an install command that ended in failure leaves the manifest as it
\* was when the command started.
C18_ManifestOnlyOnSuccess ==
  (CommandEnded /\ iexit = "exit 1") => manifest = istart.manifest

\* C19: no temporary directory of a git-clone or archive install exists once
\* control is back with the caller of the installer, whether it returned or
\* raised.
C19_TemporaryDirectoriesRemoved ==
  ipc \in {"Validate", "Done"} => temps = {}

C19_Witness ==
  /\ ipc = "Done"
  /\ icalls \in { <<"install_from_git">>, <<"install_from_github_url">> }
  /\ iraise = "FileNotFoundError"
  /\ isrcdir = Absent \/ iorig.module_path # None

\* s begins with p
HasPrefix(s, p) == \E n \in 0..Len(s) : SubSeq(s, 1, n) = p

\* The acquisition method the source-string grammar gives a source string.
ClaimedMethod(s) ==
  IF \E p \in { <<"l", "o", "c", "a", "l", ":">>, <<"/">>, <<".", "/">>, <<".", ".">> } : HasPrefix(s, p)
    THEN "install_from_local"
  ELSE IF HasPrefix(s, <<"r", "e", "g", "i", "s", "t", "r", "y", ":">>) THEN "install_from_registry"
  ELSE IF \E p \in { <<"g", "i", "t", "h", "u", "b", ":">>, <<"g", "i", "t", "+">>, <<"h", "t", "t", "p", "s", ":", "/", "/", "g", "i", "t", "h", "u", "b", ".", "c", "o", "m">> } : HasPrefix(s, p)
    THEN "install_from_git"
  ELSE "registry_then_local"

\* C20: the install command enters the one acquisition method that the prefix
\* of its source string selects.
C20_DispatchByPrefix ==
  (ientry = "install_cmd" /\ icalls # <<>>) => icalls[1] = ClaimedMethod(iorig.source)

C20_Witness ==
  /\ CommandEnded
  /\ iorig.source = <<"h", "t", "t", "p", "s", ":", "/", "/", "g", "i", "t", "h", "u", "b", ".", "c", "o", "m", "/", "o", "/", "r">>
  /\ icalls = <<"install_from_git">>

(***************************************************************************)
(* Installer claims: the fallback of install_module                         *)
(***************************************************************************)
\* The command was given a source string that matches no known prefix.
Unprefixed ==
  /\ ientry = "install_cmd"
  /\ iorig # None
  /\ ClaimedMethod(iorig.source) = "registry_then_local"

\* C21: for a source string matching no known prefix, the registry is tried
\* first with that string; the local-path install of the same string (and the
\* caller's name) starts exactly when the registry attempt raised, whatever
\* it raised and wherever in the recursive install; it does not start when
\* the registry attempt returned; and what the caller then gets is what the
\* local-path attempt returned or raised.
C21_RegistryThenLocal ==
  [][ Unprefixed =>
        /\ (idepth = 0 /\ ipc = "Dispatch") =>
              (ipc' = "Registry" /\ isource' = iorig.source)
        /\ (ifallbacks # <<>> /\ ifallbacks' = <<>> /\ ipc' = "CheckSource") =>
              (ipc = "Raise" /\ ipath' = iorig.source /\ iname' = iorig.name)
        /\ (ipc = "Raise" /\ itmp = None /\ ifallbacks # <<>>) =>
              (ipc' = "CheckSource" /\ ipath' = iorig.source /\ iname' = iorig.name
                 /\ ifallbacks' = <<>> /\ iraise' = "none")
        /\ (ipc = "Return" /\ itmp = None) =>
              (ipc' = "Validate" /\ icalls' = icalls)
        /\ (ipc = "Raise" /\ itmp = None /\ ifallbacks = <<>>) =>
              (ipc' = "Done" /\ iexit' = "exit 1"
                 /\ [what |-> "Install failed", detail |-> {iraise}] \in iout')
    ]_vars

\* The recursive install of the registry entry failed and the local-path
\* attempt of the same string found a module.
C21_Witness ==
  /\ Unprefixed
  /\ ipc = "Copy"
  /\ ifallbacks = <<>>
  /\ Len(icalls) = 3
  /\ icalls[1] = "registry_then_local"
  /\ ipath = PathResolve(iorig.source)

(***************************************************************************)
(* Installer claims: the https://github.com form of a source                *)
(***************************************************************************)
\* C30: a source https://github.com/<org>/<repo>[/<subpath>] is installed as
\* github:<org>/<repo>[/<subpath>] is: once the repository is cloned, the
\* module source is the <subpath> of the clone, or its root when there is no
\* subpath.
C30_HttpsUrlAsShorthand ==
  ( /\ ientry = "install_cmd"
    /\ iorig # None
    /\ HasPrefix(iorig.source, <<"h", "t", "t", "p", "s", ":", "/", "/", "g", "i", "t", "h", "u", "b", ".", "c", "o", "m", "/">>)
    /\ ipc = "CheckSubdir" )
  => ipath = CloneSource(ParseGitUrl(<<"g", "i", "t", "h", "u", "b", ":">> \o Drop(iorig.source, 19)).subdir)

(***************************************************************************)
(* Registry client claims                                                  *)
(***************************************************************************)
\* C22: whenever the cache file exists and use_cache is true, the call gets
\* the cached index and makes no network call, whatever the url argument and
\* whatever the file contains.  (seen is set when the file was read.)
C22_CacheFirst ==
  \A p \in DOMAIN procs :
    procs[p].seen # <<>> =>
      /\ procs[p].pc = "Done"
      /\ procs[p].called = <<>>
      /\ procs[p].result.kind \in {"returned", "results"}

\* The cache file holds an index that decodes.
CacheDecodes == cache.exists /\ json_load(cache.text).ok

C24_FetchNeverRaises ==
  \A p \in DOMAIN procs :
    procs[p].resp \notin {"none", "ok"} =>
      /\ procs[p].result.kind # "raised"
      /\ procs[p].registry.modules = <<>>
      /\ procs[p].registry.error # ""
      /\ procs[p].op = "search" => procs[p].result.list = <<>>

\* C25: search(query) returns exactly the entries of the index whose name or
\* description contains the query, letters compared without regard to case,
\* in the order of the index, each as name, description, source and version
\* (empty when the entry lacks it).
C25_SearchMatches ==
  \A p \in DOMAIN procs :
    (procs[p].op = "search" /\ procs[p].result.kind = "results") =>
      LET reg  == procs[p].registry
          mods == IF "modules" \in DOMAIN reg THEN reg.modules ELSE <<>>
          q    == procs[p].query
          list == procs[p].result.list
          SameLetter(c, d) ==
            c = d \/ {c, d} \in { {"a", "A"}, {"b", "B"}, {"c", "C"} }
          Has(str) == \E i \in 0..(Len(str) - Len(q)) :
                        \A j \in 1..Len(q) : SameLetter(str[i + j], q[j])
          Field(e, k) == IF k \in DOMAIN e.info THEN e.info[k] ELSE <<>>
          M == { i \in 1..Len(mods) :
                   \/ Has(mods[i].name)
                   \/ "description" \in DOMAIN mods[i].info /\ Has(mods[i].info.description) }
      IN /\ Len(list) = Cardinality(M)
         /\ \A j \in 1..Len(list) :
              LET i == CHOOSE i \in M : Cardinality({ k \in M : k < i }) = j - 1
              IN list[j] = [name |-> mods[i].name,
                            description |-> Field(mods[i], "description"),
                            source |-> Field(mods[i], "source"),
                            version |-> Field(mods[i], "version")]

\* A search matched one entry by its name and one by its description, the
\* letters differing in case, and left out the entry between them.
C25_Witness ==
  /\ nprocs = 1
  /\ procs[1].op = "search"
  /\ procs[1].result.kind = "results"
  /\ procs[1].query = <<"a", "B">>
  /\ Len(procs[1].registry.modules) = 3
  /\ Len(procs[1].result.list) = 2
  /\ procs[1].result.list[1].name = <<"A", "b">>
  /\ procs[1].result.list[2].name = <<"d">>
  /\ procs[1].result.list[2].source = <<>>

\* C26: a fetch that reads the cache file while another fetch is writing it
\* reads a complete index, the previous one or the new one.
C26_NoTruncatedRead ==
  [][ \A p, q \in DOMAIN procs :
        ( /\ p # q
          /\ procs[q].pc = "Dump"
          /\ procs[p].pc = "CheckCache"
          /\ procs'[p] # procs[p]
          /\ procs[p].use_cache
          /\ cache.exists )
        => \E r \in Responses :
             r.kind = "ok" /\ procs'[p].seen = <<json_dump(r.doc)>>
    ]_vars

(***************************************************************************)
(* Validator claims                                                        *)
(***************************************************************************)
\* Nothing but the operational constraints can be at fault in module m.
NothingElseWrong(m) ==
  /\ m.exists
  /\ \A f \in DOMAIN m.files : m.files[f] = "ok"
  /\ m.examples = [dir |-> TRUE, input |-> "conforming", output |-> "conforming"]
  /\ m.confidence # "out of range"
  /\ m.frontmatter.kind = "mapping"
  /\ m.frontmatter.fields = {"name", "version", "responsibility", "excludes"}
  /\ m.frontmatter.excludes # "scalar"
  /\ m.input_schema # "not json"
  /\ m.output_schema # "not json"

C29_ValidOnlyIfWellFormed ==
  vout # <<>> =>
    /\ vout.kind = "returned"
    /\ ~vout.is_valid => vout.errors # {}
    /\ vout.is_valid =>
         /\ vout.errors = {}
         /\ \A f \in RequiredFiles : vmod.files[f] = "ok"
         /\ vmod.examples.dir
         /\ vmod.frontmatter.kind = "mapping"
         /\ {"name", "version", "responsibility", "excludes"} \subseteq vmod.frontmatter.fields
         /\ vmod.frontmatter.excludes \in {"list", "empty list"}
         /\ vmod.examples.input \notin {"missing", "not json"}
         /\ vmod.examples.output \notin {"missing", "not json"}
         /\ Validates(vmod.examples.input, vmod.input_schema)
         /\ Validates(vmod.examples.output, vmod.output_schema)

(***************************************************************************)
(* Claims about installs that run at the same time                         *)
(***************************************************************************)
\* C27: when two installs of the same target name have run concurrently,
\* both have completed, and the directory under that name holds exactly the
\* files of one of the two sources, each as that install wrote it.
C27_LastWriterWins ==
  ( /\ racers # <<>>
    /\ racers[1].name = racers[2].name
    /\ \A p \in 1..2 : racers[p].pc = "Done" )
  => /\ \A p \in 1..2 : racers[p].result = "returned"
     /\ \E p \in 1..2 :
          rstore[racers[1].name] = Dir({ <<f, p>> : f \in racers[p].source })

(***************************************************************************)
(* Claims about the name an install places the module under                *)
(***************************************************************************)
\* C32: when an install that was given a name override has succeeded, the
\* module is in the user-global store under the override name, and that is
\* the path the install returned, whatever the kind of the source.
C32_NameOverrideHonoured ==
  (Succeeded /\ iorig.name # None)
  => (itarget = iorig.name /\ Installed(iorig.name))

\* C33: when two installs of different names that ran at the same time have
\* both returned, the manifest holds the entry of each.
C33_BothEntriesRecorded ==
  ( /\ racers # <<>>
    /\ racers[1].name # racers[2].name
    /\ \A p \in 1..2 : racers[p].pc = "Done" /\ racers[p].result = "returned" )
  => /\ rmanifest.ok
     /\ \A p \in 1..2 : racers[p].name \in DOMAIN rmanifest.entries

(***************************************************************************)
(* Claims about install_from_local called on its own                       *)
(***************************************************************************)
\* The install command handed its source straight to install_from_local, and
\* the checks of the source have run.
DirectLocalCall ==
  /\ ientry = "install_cmd"
  /\ icalls = <<"install_from_local">>
  /\ ipc \notin {"Dispatch", "CheckSource"}

\* Nothing sits at the source path, or what sits there holds none of the
\* three descriptor files.
PreCheckFails ==
  isrcdir = Absent \/ isrcdir.files \cap DescriptorFiles = {}

\* C37: an install_from_local call whose source is missing or holds no
\* descriptor file has raised FileNotFoundError or ValueError, and the
\* user-global store and the manifest are what they were before the call.
C37_FailedPreCheckLeavesAll ==
  (DirectLocalCall /\ PreCheckFails)
  => /\ iraise \in {"FileNotFoundError", "ValueError"}
     /\ ustore = istart.store
     /\ manifest = istart.manifest

C37_Witness ==
  /\ DirectLocalCall
  /\ ipc = "Done"
  /\ isrcdir = Dir({"README.md"})
  /\ iorig.name = None
  /\ Basename(ipath) = <<"m">>
  /\ <<"m">> \in DOMAIN istart.store
  /\ <<"m">> \in DOMAIN istart.manifest

(***************************************************************************)
(* Claims about installs through the registry index                        *)
(***************************************************************************)
\* C36: an install through the registry index ends by itself, whatever the
\* index holds: the chain of registry lookups never runs on until the
\* interpreter gives up with RecursionError.
C36_RegistryInstallTerminates ==
  iraise # "RecursionError"

\* C35: once install_from_local has passed the checks of a source directory
\* that sits in the user-global store, that directory is still there with
\* the files it had, whether the call went on, returned or raised.
C35_SourceLeftUnchanged ==
  ( /\ DirectLocalCall
    /\ isrcdir # Absent
    /\ StoredAt(PathResolve(ipath)) # None )
  => /\ StoredAt(PathResolve(ipath)) \in DOMAIN ustore
     /\ ustore[StoredAt(PathResolve(ipath))] = isrcdir

(***************************************************************************)
(* Claims about install_from_github_url                                    *)
(***************************************************************************)
\* s without the suffix, when s ends with it; s otherwise
WithoutSuffix(s, suffix) ==
  IF Len(s) >= Len(suffix) /\ SubSeq(s, Len(s) - Len(suffix) + 1, Len(s)) = suffix
    THEN SubSeq(s, 1, Len(s) - Len(suffix))
    ELSE s

\* The segments <org>, <repo> of the URL or the org/repo shorthand the entry
\* point was given.
GivenSegments ==
  Split(IF StartsWith(iorig.source, Lit.github_host)
          THEN Drop(iorig.source, Len(Lit.github_host)) ELSE iorig.source, "/")

\* C39: the archive URL install_from_github_url has built is
\* https://github.com/<org>/<repo>/archive/refs/heads/main.zip with <repo>
\* the repository segment it was given, less a trailing ".git" if there is
\* one and nothing else.
C39_ArchiveUrlKeepsRepoName ==
  (ientry = "install_from_github_url" /\ izip # None)
  => izip = Lit.github_host \o GivenSegments[1] \o <<"/">>
              \o WithoutSuffix(GivenSegments[2], Lit.dot_git)
              \o <<"/", "a", "r", "c", "h", "i", "v", "e", "/", "r", "e", "f", "s", "/", "h", "e", "a", "d", "s", "/", "m", "a", "i", "n", ".", "z", "i", "p">>

(***************************************************************************)
(* Claims about the resolver after an install                              *)
(***************************************************************************)
\* What the locations other than the user-global store may hold under the
\* installed name: nothing, a directory without descriptor, a module.
OtherLocations ==
  [ Bases \ {"user"} -> {Absent, Dir({}), Dir({"MODULE.md"})} ]

\* The stores the resolver looks at: the user-global store as the installer
\* left it, the others holding other[b] under name n.
StoresAfterInstall(other, n) ==
  [b \in Bases |-> IF b = "user" THEN ustore ELSE (n :> other[b])]

\* The locations that come before the user-global store in the search order.
HigherPriority(env) ==
  LET paths == get_search_paths(env)
      k == CHOOSE i \in 1..Len(paths) :
             paths[i] = "user" /\ \A j \in 1..(i - 1) : paths[j] # "user"
  IN { paths[j] : j \in 1..(k - 1) }

\* C31: after a successful install under name N, find(N) returns a module
\* for every setting of the injected paths and every content of the other
\* locations: the installed user-global path when no location before the
\* user-global store in the search order holds a valid module named N, a
\* module of such a location when one does.
C31_FindAfterInstall ==
  Succeeded =>
    \A env \in CustomSettings, other \in OtherLocations :
      LET store  == StoresAfterInstall(other, itarget)
          found  == find_module(store, env, itarget)
          higher == { b \in HigherPriority(env) : _is_valid_module(store, <<b, itarget>>) }
      IN /\ found # None
         /\ higher = {} => found = <<"user", itarget>>
         /\ higher # {} => found[1] \in higher

\* A module installed as "y" over none, found in the user-global store; and
\* the same name shadowed by a module of an injected path.
C31_Witness ==
  /\ Succeeded
  /\ itarget = <<"y">>
  /\ \E other \in OtherLocations :
       /\ find_module(StoresAfterInstall(other, itarget), <<>>, itarget) = <<"user", itarget>>
       /\ find_module(StoresAfterInstall(other, itarget), <<"a", "b">>, itarget) = <<"a", itarget>>

(***************************************************************************)
(* Claims about the two resolver queries taken together                    *)
(***************************************************************************)
\* The entries of a list_modules result that carry name n.
EntriesOf(modules, n) == { i \in 1..Len(modules) : modules[i].name = n }

\* C34: on every state of the search paths list_modules and find_module
\* agree: what find_module returned for a name is not None exactly when the
\* name is in the list, whatever the order in which directories yield their
\* entries, and is the path of its list entry; and every name list_modules
\* returned is found by find_module at the path of its entry, every name it
\* did not return is not found.
C34_ListAndFindAgree ==
  /\ rop[1] = "find" =>
       \A order \in DirOrders :
         LET modules == list_modules(fs, custom, order)
         IN /\ (rfound # None) <=> (EntriesOf(modules, rop[2]) # {})
            /\ \A i \in EntriesOf(modules, rop[2]) : modules[i].path = rfound
  /\ rop[1] = "list" =>
       \A n \in ModuleNames :
         /\ (EntriesOf(rlist, n) # {}) <=> (find_module(fs, custom, n) # None)
         /\ \A i \in EntriesOf(rlist, n) : rlist[i].path = find_module(fs, custom, n)

\* A listed v0 module whose name also sits, without qualifying, in another
\* location.
C34_Witness ==
  /\ rop[1] = "list"
  /\ \E i \in 1..Len(rlist) :
       /\ rlist[i].format = "v0"
       /\ \E b \in Bases \ {rlist[i].path[1]} : Exists(fs, <<b, rlist[i].name>>)

(***************************************************************************)
(* Claims about uninstall_module                                           *)
(***************************************************************************)
\* C38: uninstall_module(name) returns, and returns true exactly when
\* <user-global store>/<name> existed; afterwards nothing sits at that path;
\* every other entry of every location, the other entries of the
\* user-global store included, and the manifest are what they were.
C38_UninstallOnlyThatDirectory ==
  [][ (rop = <<"none">> /\ rop'[1] = "uninstall") =>
        LET n == rop'[2]
            existed == n = "." \/ Exists(fs, <<"user", n>>)
        IN /\ rop'[3] \in {"True", "False"}
           /\ (rop'[3] = "True") <=> existed
           /\ ~Exists(fs', <<"user", n>>)
           /\ \A b \in Bases, k \in ModuleNames :
                <<b, k>> # <<"user", n>> => fs'[b][k] = fs[b][k]
           /\ manifest' = manifest
    ]_vars

====
